---- MODULE Spec2Model ----
(***************************************************************************)
(* Model of src/lexer.c: the lexical analyzer for Python and TypeScript.   *)
(* A run of main() is a pipeline: comment extraction, tokenization, then   *)
(* the four error detectors in a fixed order.  Each stage is one action;   *)
(* the C functions are operators that follow the loops of the code.        *)
(*                                                                         *)
(* Text is a sequence of one-character strings.  Positions are 1-based:    *)
(* position p of the model is index p - 1 of the C code, so the C test     *)
(* `index + k < length` reads `p + k <= Len(s)` here.                      *)
(***************************************************************************)
EXTENDS Integers, Sequences, FiniteSets, TLC

VARIABLES
    source,     \* source_code: the text read from the file
    lang,       \* detected_language
    pc,         \* position of main() in the pipeline
    comments,   \* comment_array[0 .. total_comments-1]
    clean,      \* code_without_comments
    cleanmap,   \* ghost: cleanmap[k] is the source position of clean[k]
    tokens,     \* token_array[0 .. total_tokens-1]
    symbols,    \* symbol_table of the undeclared-identifier detector (its local, kept for observation)
    errors,     \* error_array[0 .. total_errors-1]
    argv,       \* argv[1 .. argc-1]: the command-line arguments after the program name
    readable,   \* whether fopen(argv[1], "r") succeeds
    exit_status,\* the value main() returned; -1 while it runs
    previous,   \* the results of the runs of the program that have ended, oldest first
    levcall     \* a call of levenshtein_distance: its arguments str1 and str2 and the
                \* value it returned (distance, -1 before it returns)

boundary == <<argv, readable, exit_status>>
vars == <<source, lang, pc, comments, clean, cleanmap, tokens, symbols, errors,
          argv, readable, exit_status, previous, levcall>>

(***************************************************************************)
(* SECTION 1: CONSTANTS                                                    *)
(***************************************************************************)
MAX_TOKENS == 1000
MAX_COMMENTS == 100
MAX_ERRORS == 100
MAX_SYMBOLS == 500
MAX_LENGTH == 1024
TOKEN_VALUE_SIZE == 256

LANG_PYTHON == "LANG_PYTHON"
LANG_TYPESCRIPT == "LANG_TYPESCRIPT"
Language == {LANG_PYTHON, LANG_TYPESCRIPT}

ERROR_TYPE_MISSPELLED_KEYWORD == "MISSPELLED_KEYWORD"
ERROR_TYPE_TYPE_MISMATCH == "TYPE_MISMATCH"
ERROR_TYPE_UNDECLARED_IDENTIFIER == "UNDECLARED_IDENTIFIER"
ERROR_TYPE_INVALID_OPERATOR == "INVALID_OPERATOR"

\* The enum ErrorType: the position of each kind in the enumeration.
ErrorTypeOrd(t) ==
    CASE t = ERROR_TYPE_MISSPELLED_KEYWORD -> 0
      [] t = ERROR_TYPE_TYPE_MISMATCH -> 1
      [] t = ERROR_TYPE_UNDECLARED_IDENTIFIER -> 2
      [] t = ERROR_TYPE_INVALID_OPERATOR -> 3

PYTHON_KEYWORDS ==
    << <<"F","a","l","s","e">>,
       <<"N","o","n","e">>,
       <<"T","r","u","e">>,
       <<"a","n","d">>,
       <<"a","s">>,
       <<"a","s","s","e","r","t">>,
       <<"a","s","y","n","c">>,
       <<"a","w","a","i","t">>,
       <<"b","r","e","a","k">>,
       <<"c","l","a","s","s">>,
       <<"c","o","n","t","i","n","u","e">>,
       <<"d","e","f">>,
       <<"d","e","l">>,
       <<"e","l","i","f">>,
       <<"e","l","s","e">>,
       <<"e","x","c","e","p","t">>,
       <<"f","i","n","a","l","l","y">>,
       <<"f","o","r">>,
       <<"f","r","o","m">>,
       <<"g","l","o","b","a","l">>,
       <<"i","f">>,
       <<"i","m","p","o","r","t">>,
       <<"i","n">>,
       <<"i","s">>,
       <<"l","a","m","b","d","a">>,
       <<"n","o","n","l","o","c","a","l">>,
       <<"n","o","t">>,
       <<"o","r">>,
       <<"p","a","s","s">>,
       <<"r","a","i","s","e">>,
       <<"r","e","t","u","r","n">>,
       <<"t","r","y">>,
       <<"w","h","i","l","e">>,
       <<"w","i","t","h">>,
       <<"y","i","e","l","d">>,
       <<"i","n","t">>,
       <<"f","l","o","a","t">>,
       <<"s","t","r">>,
       <<"b","o","o","l">>,
       <<"l","i","s","t">>,
       <<"d","i","c","t">> >>

TYPESCRIPT_KEYWORDS ==
    << <<"b","r","e","a","k">>,
       <<"c","a","s","e">>,
       <<"c","a","t","c","h">>,
       <<"c","l","a","s","s">>,
       <<"c","o","n","s","t">>,
       <<"c","o","n","t","i","n","u","e">>,
       <<"d","e","b","u","g","g","e","r">>,
       <<"d","e","f","a","u","l","t">>,
       <<"d","e","l","e","t","e">>,
       <<"d","o">>,
       <<"e","l","s","e">>,
       <<"e","n","u","m">>,
       <<"e","x","p","o","r","t">>,
       <<"e","x","t","e","n","d","s">>,
       <<"f","a","l","s","e">>,
       <<"f","i","n","a","l","l","y">>,
       <<"f","o","r">>,
       <<"f","u","n","c","t","i","o","n">>,
       <<"i","f">>,
       <<"i","m","p","o","r","t">>,
       <<"i","n">>,
       <<"i","n","s","t","a","n","c","e","o","f">>,
       <<"i","n","t","e","r","f","a","c","e">>,
       <<"l","e","t">>,
       <<"n","e","w">>,
       <<"n","u","l","l">>,
       <<"r","e","t","u","r","n">>,
       <<"s","u","p","e","r">>,
       <<"s","w","i","t","c","h">>,
       <<"t","h","i","s">>,
       <<"t","h","r","o","w">>,
       <<"t","r","u","e">>,
       <<"t","r","y">>,
       <<"t","y","p","e","o","f">>,
       <<"v","a","r">>,
       <<"v","o","i","d">>,
       <<"w","h","i","l","e">>,
       <<"w","i","t","h">>,
       <<"n","u","m","b","e","r">>,
       <<"s","t","r","i","n","g">>,
       <<"b","o","o","l","e","a","n">>,
       <<"a","n","y">>,
       <<"n","e","v","e","r">>,
       <<"u","n","k","n","o","w","n">>,
       <<"a","s","y","n","c">>,
       <<"a","w","a","i","t">> >>

(***************************************************************************)
(* Character classes of <ctype.h> in the "C" locale, over ASCII.           *)
(***************************************************************************)
LowerSeq == <<"a","b","c","d","e","f","g","h","i","j","k","l","m",
              "n","o","p","q","r","s","t","u","v","w","x","y","z">>
UpperSeq == <<"A","B","C","D","E","F","G","H","I","J","K","L","M",
              "N","O","P","Q","R","S","T","U","V","W","X","Y","Z">>
Lower == {LowerSeq[k] : k \in DOMAIN LowerSeq}
Upper == {UpperSeq[k] : k \in DOMAIN UpperSeq}
Digits == {"0","1","2","3","4","5","6","7","8","9"}

isalpha(c) == c \in Lower \cup Upper
isdigit(c) == c \in Digits
isalnum(c) == isalpha(c) \/ isdigit(c)
isspace(c) == c \in {" ", "\t", "\n", "\r", "\f"}
tolower(c) == IF c \in Upper THEN LowerSeq[CHOOSE k \in DOMAIN UpperSeq : UpperSeq[k] = c] ELSE c

\* The backquote character (0x60), which a TLA+ string cannot hold.
Backtick == "backquote"

OperatorChars == {"+","-","*","/","%","=","<",">","!","&","|","^","~"}
DelimiterChars == {"(",")","[","]","{","}",",",":",";","."}

is_operator_char(c) == c \in OperatorChars
is_delimiter_char(c) == c \in DelimiterChars

\* strcmp(word, KEYWORDS[i]) == 0 for some i
InList(word, list) == \E k \in DOMAIN list : list[k] = word
is_python_keyword(word) == InList(word, PYTHON_KEYWORDS)
is_typescript_keyword(word) == InList(word, TYPESCRIPT_KEYWORDS)

(***************************************************************************)
(* Loops.  A C loop `while (cond) body` over a state st is written as its  *)
(* body Step(st) and its exit test Done(st) = ~cond; Iterate runs it for   *)
(* at most n iterations, splitting n in halves so that the depth of the    *)
(* evaluation grows with log n and not with n.                             *)
(***************************************************************************)
RECURSIVE Iterate(_, _, _, _)
Iterate(Step(_), Done(_), st, n) ==
    IF n = 0 \/ Done(st) THEN st
    ELSE IF n = 1 THEN Step(st)
    ELSE Iterate(Step, Done, Iterate(Step, Done, st, n \div 2), n - (n \div 2))

\* for (i = lo; i <= hi; i++) acc = Body(i, acc);
ForLoop(Body(_, _), lo, hi, acc) ==
    Iterate(LAMBDA s : [i |-> s.i + 1, acc |-> Body(s.i, s.acc)],
            LAMBDA s : s.i > hi,
            [i |-> lo, acc |-> acc], hi - lo + 1).acc

(***************************************************************************)
(* SECTION 3: levenshtein_distance.  The matrix is filled row by row;      *)
(* a row is the sequence matrix[i][0..len2], kept at positions 1..len2+1.  *)
(***************************************************************************)
min_of_three(a, b, c) ==
    LET m1 == IF b < a THEN b ELSE a
    IN  IF c < m1 THEN c ELSE m1

\* SubstCost comparing the characters as they are.
SubstCostExact(c1, c2) == IF c1 = c2 THEN 0 ELSE 1

SubstCost(c1, c2) == IF tolower(c1) = tolower(c2) THEN 0 ELSE 1

\* for (j = 1; j <= len2; j++) matrix[i][j] = ...;  prev is the row matrix[i-1]
LevFillRow(prev, i, c1, str2) ==
    ForLoop(LAMBDA j, row :
                Append(row, min_of_three(prev[j + 1] + 1,                       \* deletion
                                         row[j] + 1,                            \* insertion
                                         prev[j] + SubstCost(c1, str2[j]))),    \* substitution
            1, Len(str2), <<i>>)

\* for (i = 1; i <= len1; i++): the last row
LevRows(str1, str2) ==
    ForLoop(LAMBDA i, prev : LevFillRow(prev, i, str1[i], str2),
            1, Len(str1), [j \in 1..(Len(str2) + 1) |-> j - 1])

levenshtein_distance(str1, str2) == LevRows(str1, str2)[Len(str2) + 1]

(***************************************************************************)
(* SECTION 4: COMMENT EXTRACTION                                           *)
(* A Comment is [content, start_line, end_line, is_multiline]; pos is a    *)
(* ghost field: the source position of the comment's first character.      *)
(* The state of the extraction loop is [p, line, comments, clean,          *)
(* cleanmap]: source_index + 1, current_line, and the outputs so far.      *)
(***************************************************************************)

\* if (source_code[source_index] == '\n') current_line++;
NextLine(c, line) == IF c = "\n" THEN line + 1 ELSE line

\* comments[*comment_count] = ...; (*comment_count)++;  (no capacity test in the code)
AddComment(list, c) == Append(list, c)

\* while (source_index < source_length && source_code[source_index] != '\n') copy
ScanLineComment(src, p) ==
    Iterate(LAMBDA e : e + 1,
            LAMBDA e : ~(e <= Len(src) /\ src[e] # "\n"),
            p, Len(src))

\* Python: copy until the closing quotes; the loop stops two characters before the end.
TripleQuoteStep(src, quote_char, s) ==
    LET l2 == NextLine(src[s.p], s.line)
    IN  IF src[s.p] = quote_char /\ src[s.p + 1] = quote_char /\ src[s.p + 2] = quote_char
        THEN [p |-> s.p + 3, line |-> l2, closed |-> TRUE]     \* copy the closing quotes; break
        ELSE [p |-> s.p + 1, line |-> l2, closed |-> FALSE]

ScanTripleQuote(src, p, quote_char, line) ==
    Iterate(LAMBDA s : TripleQuoteStep(src, quote_char, s),
            LAMBDA s : s.closed \/ ~(s.p + 2 <= Len(src)),
            [p |-> p, line |-> line, closed |-> FALSE], Len(src))

IsTripleQuote(src, p) ==
    /\ p + 2 <= Len(src)
    /\ \/ src[p] = "'" /\ src[p + 1] = "'" /\ src[p + 2] = "'"
       \/ src[p] = "\"" /\ src[p + 1] = "\"" /\ src[p + 2] = "\""

\* CopyCode that counts a newline but does not copy it.
CopyCodeDropNewline(st, src) ==
    IF src[st.p] = "\n" THEN [st EXCEPT !.line = @ + 1, !.p = @ + 1]
    ELSE [st EXCEPT !.clean = Append(@, src[st.p]), !.cleanmap = Append(@, st.p), !.p = @ + 1]

\* Regular code: code_without_comments[clean_index++] = source_code[source_index++];
CopyCode(st, src) ==
    [st EXCEPT !.clean = Append(@, src[st.p]), !.cleanmap = Append(@, st.p),
               !.line = NextLine(src[st.p], @), !.p = @ + 1]

\* ExtractPyStep that takes `#` for a comment only at the start of a line.
ExtractPyStepLineStart(src, st) ==
    IF src[st.p] = "#" /\ (st.p = 1 \/ src[st.p - 1] = "\n")
    THEN LET e == ScanLineComment(src, st.p)
             c == [content |-> SubSeq(src, st.p, e - 1), start_line |-> st.line,
                   end_line |-> st.line, is_multiline |-> FALSE, pos |-> st.p]
         IN  [st EXCEPT !.comments = AddComment(@, c), !.p = e]
    ELSE IF IsTripleQuote(src, st.p)
    THEN LET r == ScanTripleQuote(src, st.p + 3, src[st.p], st.line)
             c == [content |-> SubSeq(src, st.p, r.p - 1), start_line |-> st.line,
                   end_line |-> r.line, is_multiline |-> TRUE, pos |-> st.p]
         IN  [st EXCEPT !.comments = AddComment(@, c), !.p = r.p, !.line = r.line]
    ELSE CopyCode(st, src)

ExtractPyStep(src, st) ==
    IF src[st.p] = "#"
    THEN LET e == ScanLineComment(src, st.p)
             c == [content |-> SubSeq(src, st.p, e - 1), start_line |-> st.line,
                   end_line |-> st.line, is_multiline |-> FALSE, pos |-> st.p]
         IN  [st EXCEPT !.comments = AddComment(@, c), !.p = e]
    ELSE IF IsTripleQuote(src, st.p)
    THEN LET r == ScanTripleQuote(src, st.p + 3, src[st.p], st.line)
             c == [content |-> SubSeq(src, st.p, r.p - 1), start_line |-> st.line,
                   end_line |-> r.line, is_multiline |-> TRUE, pos |-> st.p]
         IN  [st EXCEPT !.comments = AddComment(@, c), !.p = r.p, !.line = r.line]
    ELSE CopyCode(st, src)

ExtractionStart == [p |-> 1, line |-> 1, comments |-> <<>>, clean |-> <<>>, cleanmap |-> <<>>]

\* while (source_index < source_length)
extract_comments_python(source_code) ==
    Iterate(LAMBDA st : ExtractPyStep(source_code, st),
            LAMBDA st : ~(st.p <= Len(source_code)),
            ExtractionStart, Len(source_code))

\* BlockCommentStep without `if (source_code[source_index] == '\n') current_line++;`
BlockCommentStepNoCount(src, s) ==
    IF src[s.p] = "*" /\ src[s.p + 1] = "/"
    THEN [p |-> s.p + 2, line |-> s.line, closed |-> TRUE]
    ELSE [p |-> s.p + 1, line |-> s.line, closed |-> FALSE]

\* TypeScript: copy until star-slash; the loop stops one character before the end.
BlockCommentStep(src, s) ==
    LET l2 == NextLine(src[s.p], s.line)
    IN  IF src[s.p] = "*" /\ src[s.p + 1] = "/"
        THEN [p |-> s.p + 2, line |-> l2, closed |-> TRUE]
        ELSE [p |-> s.p + 1, line |-> l2, closed |-> FALSE]

ScanBlockComment(src, p, line) ==
    Iterate(LAMBDA s : BlockCommentStep(src, s),
            LAMBDA s : s.closed \/ ~(s.p + 1 <= Len(src)),
            [p |-> p, line |-> line, closed |-> FALSE], Len(src))

ExtractTsStep(src, st) ==
    IF st.p + 1 <= Len(src) /\ src[st.p] = "/" /\ src[st.p + 1] = "/"
    THEN LET e == ScanLineComment(src, st.p)
             c == [content |-> SubSeq(src, st.p, e - 1), start_line |-> st.line,
                   end_line |-> st.line, is_multiline |-> FALSE, pos |-> st.p]
         IN  [st EXCEPT !.comments = AddComment(@, c), !.p = e]
    ELSE IF st.p + 1 <= Len(src) /\ src[st.p] = "/" /\ src[st.p + 1] = "*"
    THEN LET r == ScanBlockComment(src, st.p + 2, st.line)
             c == [content |-> SubSeq(src, st.p, r.p - 1), start_line |-> st.line,
                   end_line |-> r.line, is_multiline |-> TRUE, pos |-> st.p]
         IN  [st EXCEPT !.comments = AddComment(@, c), !.p = r.p, !.line = r.line]
    ELSE CopyCode(st, src)

extract_comments_typescript(source_code) ==
    Iterate(LAMBDA st : ExtractTsStep(source_code, st),
            LAMBDA st : ~(st.p <= Len(source_code)),
            ExtractionStart, Len(source_code))

(***************************************************************************)
(* SECTION 5: TOKENIZER                                                    *)
(* A Token is [value, type, line]; pos is a ghost field: the position in   *)
(* the tokenizer's input of the token's first character.  The state of     *)
(* the tokenizer loop is [p, line, tokens]: code_index + 1, current_line,  *)
(* and the tokens so far.                                                  *)
(***************************************************************************)

\* The two tokenizers differ in these places only.
IsIdentStart(l, c) == isalpha(c) \/ c = "_" \/ (l = LANG_TYPESCRIPT /\ c = "$")
IsIdentCont(l, c) == isalnum(c) \/ c = "_" \/ (l = LANG_TYPESCRIPT /\ c = "$")
IsQuote(l, c) == c = "\"" \/ c = "'" \/ (l = LANG_TYPESCRIPT /\ c = Backtick)
is_keyword(l, word) == IF l = LANG_PYTHON THEN is_python_keyword(word) ELSE is_typescript_keyword(word)
\* tokenize_typescript counts the newlines inside a string literal; tokenize_python does not
StringLine(l, c, line) == IF l = LANG_TYPESCRIPT THEN NextLine(c, line) ELSE line

\* SkipSpace counting the newlines it skips from line 1, not from the current line.
SkipSpaceRestart(src, p, line) ==
    Iterate(LAMBDA s : [p |-> s.p + 1, line |-> NextLine(src[s.p], s.line)],
            LAMBDA s : ~(s.p <= Len(src) /\ isspace(src[s.p])),
            [p |-> p, line |-> 1], Len(src))

\* Skip whitespace
SkipSpace(src, p, line) ==
    Iterate(LAMBDA s : [p |-> s.p + 1, line |-> NextLine(src[s.p], s.line)],
            LAMBDA s : ~(s.p <= Len(src) /\ isspace(src[s.p])),
            [p |-> p, line |-> line], Len(src))

ScanIdent(src, p, l) ==
    Iterate(LAMBDA e : e + 1,
            LAMBDA e : ~(e <= Len(src) /\ IsIdentCont(l, src[e])),
            p, Len(src))

ScanNumber(src, p) ==
    Iterate(LAMBDA e : e + 1,
            LAMBDA e : ~(e <= Len(src) /\ (isdigit(src[e]) \/ src[e] = ".")),
            p, Len(src))

\* StringStep that copies one character whatever it is.
StringStepNoEscape(src, l, s) ==
    [p |-> s.p + 1, line |-> StringLine(l, src[s.p], s.line)]

\* One iteration of the string loop: a backslash and the character after it are
\* copied together.
StringStep(src, l, s) ==
    LET p1 == IF src[s.p] = "\\" /\ s.p + 1 <= Len(src) THEN s.p + 1 ELSE s.p
    IN  [p |-> p1 + 1, line |-> StringLine(l, src[p1], s.line)]

\* From the character after the opening quote to the one after the closing quote.
ScanString(src, p, quote_char, l, line) ==
    LET s == Iterate(LAMBDA t : StringStep(src, l, t),
                     LAMBDA t : ~(t.p <= Len(src) /\ src[t.p] # quote_char),
                     [p |-> p, line |-> line], Len(src))
    IN  [p |-> IF s.p <= Len(src) THEN s.p + 1 ELSE s.p, line |-> s.line]

ScanOperator(src, p) ==
    Iterate(LAMBDA s : [p |-> s.p + 1, value_index |-> s.value_index + 1],
            LAMBDA s : ~(s.p <= Len(src) /\ is_operator_char(src[s.p]) /\ s.value_index < 3),
            [p |-> p, value_index |-> 0], Len(src)).p

\* The characters of a token type name.
TypeText(type) ==
    CASE type = "IDENTIFIER" -> <<"I","D","E","N","T","I","F","I","E","R">>
      [] type = "KEYWORD" -> <<"K","E","Y","W","O","R","D">>
      [] type = "INT_LITERAL" -> <<"I","N","T","_","L","I","T","E","R","A","L">>
      [] type = "FLOAT_LITERAL" -> <<"F","L","O","A","T","_","L","I","T","E","R","A","L">>
      [] type = "STRING_LITERAL" -> <<"S","T","R","I","N","G","_","L","I","T","E","R","A","L">>
      [] type = "OPERATOR" -> <<"O","P","E","R","A","T","O","R">>
      [] type = "DELIMITER" -> <<"D","E","L","I","M","I","T","E","R">>

\* The token written for the characters from..to-1.  The characters are copied into
\* value[TOKEN_VALUE_SIZE] with no test of the index: from the 257th on they and the
\* terminator land in the type field that follows, which strcpy then overwrites with
\* the type name, so that the value reads as its first 256 characters followed by the
\* type name.
MkToken(src, from, to, type, line) ==
    LET text == SubSeq(src, from, to - 1) IN
    [value |-> IF Len(text) < TOKEN_VALUE_SIZE THEN text
               ELSE SubSeq(text, 1, TOKEN_VALUE_SIZE) \o TypeText(type),
     type |-> type, line |-> line, pos |-> from]

TokenizeStep(src, l, st) ==
    LET ws == SkipSpace(src, st.p, st.line)
        s == ws.p
        ln == ws.line
    IN  IF s > Len(src) THEN [st EXCEPT !.p = s, !.line = ln]     \* break
        ELSE IF IsIdentStart(l, src[s])
        THEN LET e == ScanIdent(src, s, l)
                 w == SubSeq(src, s, e - 1)
             IN  [p |-> e, line |-> ln, tokens |-> Append(st.tokens,
                     MkToken(src, s, e, IF is_keyword(l, w) THEN "KEYWORD" ELSE "IDENTIFIER", ln))]
        ELSE IF isdigit(src[s])
        THEN LET e == ScanNumber(src, s)
                 has_decimal_point == \E k \in s..(e - 1) : src[k] = "."
             IN  [p |-> e, line |-> ln, tokens |-> Append(st.tokens,
                     MkToken(src, s, e, IF has_decimal_point THEN "FLOAT_LITERAL" ELSE "INT_LITERAL", ln))]
        ELSE IF IsQuote(l, src[s])
        THEN LET r == ScanString(src, s + 1, src[s], l, ln)
             IN  [p |-> r.p, line |-> r.line, tokens |-> Append(st.tokens,
                     MkToken(src, s, r.p, "STRING_LITERAL", r.line))]
        ELSE IF is_operator_char(src[s])
        THEN LET e == ScanOperator(src, s)
             IN  [p |-> e, line |-> ln, tokens |-> Append(st.tokens, MkToken(src, s, e, "OPERATOR", ln))]
        ELSE IF is_delimiter_char(src[s])
        THEN [p |-> s + 1, line |-> ln, tokens |-> Append(st.tokens, MkToken(src, s, s + 1, "DELIMITER", ln))]
        ELSE [st EXCEPT !.p = s + 1, !.line = ln]                 \* Skip unknown characters

\* TokenizeLoop with `<=` for `<` in the test of the token count.
TokenizeLoopOneMore(src, l) ==
    Iterate(LAMBDA st : TokenizeStep(src, l, st),
            LAMBDA st : ~(st.p <= Len(src) /\ Len(st.tokens) <= MAX_TOKENS),
            [p |-> 1, line |-> 1, tokens |-> <<>>], Len(src)).tokens

\* while (code_index < code_length && *token_count < MAX_TOKENS)
TokenizeLoop(src, l) ==
    Iterate(LAMBDA st : TokenizeStep(src, l, st),
            LAMBDA st : ~(st.p <= Len(src) /\ Len(st.tokens) < MAX_TOKENS),
            [p |-> 1, line |-> 1, tokens |-> <<>>], Len(src)).tokens

tokenize_python(source_code) == TokenizeLoop(source_code, LANG_PYTHON)
tokenize_typescript(source_code) == TokenizeLoop(source_code, LANG_TYPESCRIPT)

(***************************************************************************)
(* SECTION 6: ERROR DETECTION                                              *)
(* An Error is [message, line_number, type].  The message is kept as the   *)
(* format string of the snprintf call and its arguments.                   *)
(***************************************************************************)

MkError(fmt, args, line, type) ==
    [message |-> [fmt |-> fmt, args |-> args], line_number |-> line, type |-> type]

\* AddError storing the new error in front of the list.
AddErrorFront(list, e) == <<e>> \o list

\* errors[*err_count] = ...; (*err_count)++;  (no capacity test in the code)
AddError(list, e) == Append(list, e)

(* ERROR 1: Misspelled Keywords *)

\* MisspellMatch with `< 2` for `<= 2`.
MisspellMatchStrict(edit_distance) == edit_distance > 0 /\ edit_distance < 2

\* if (edit_distance > 0 && edit_distance <= 2)
MisspellMatch(edit_distance) == edit_distance > 0 /\ edit_distance <= 2

\* if (strcmp(type, "IDENTIFIER") != 0 || strlen(value) <= 2) continue;
MisspellCandidate(tok) == ~(tok.type # "IDENTIFIER" \/ Len(tok.value) <= 2)

\* The inner loop over the keywords, left at the first match (break): the first j
\* that matches, 0 when none does.
FirstMisspellMatch(value, keywords) ==
    LET s == Iterate(LAMBDA t : IF MisspellMatch(levenshtein_distance(value, keywords[t.j]))
                                THEN [t EXCEPT !.found = TRUE]
                                ELSE [t EXCEPT !.j = @ + 1],
                     LAMBDA t : t.found \/ t.j > Len(keywords),
                     [j |-> 1, found |-> FALSE], Len(keywords))
    IN  IF s.found THEN s.j ELSE 0

\* The body of the loop over the tokens.
MisspelledAt(toks, keywords, i, errs) ==
    IF ~MisspellCandidate(toks[i]) THEN errs
    ELSE LET j == FirstMisspellMatch(toks[i].value, keywords)
         IN  IF j = 0 THEN errs
             ELSE AddError(errs,
                      MkError("Misspelled keyword - '%s' (did you mean '%s'?)",
                              <<toks[i].value, keywords[j]>>,
                              toks[i].line, ERROR_TYPE_MISSPELLED_KEYWORD))

\* for (int i = 0; i < count; i++)
MisspelledLoop(toks, keywords, errs) ==
    ForLoop(LAMBDA i, e : MisspelledAt(toks, keywords, i, e), 1, Len(toks), errs)

check_misspelled_keyword_python(toks, errs) == MisspelledLoop(toks, PYTHON_KEYWORDS, errs)
check_misspelled_keyword_typescript(toks, errs) == MisspelledLoop(toks, TYPESCRIPT_KEYWORDS, errs)

(* ERROR 2: Type Mismatch *)

T_int == <<"i","n","t">>
T_float == <<"f","l","o","a","t">>
T_str == <<"s","t","r">>
T_number == <<"n","u","m","b","e","r">>
T_string == <<"s","t","r","i","n","g">>
T_boolean == <<"b","o","o","l","e","a","n">>
K_let == <<"l","e","t">>
K_const == <<"c","o","n","s","t">>
K_var == <<"v","a","r">>
K_function == <<"f","u","n","c","t","i","o","n">>

\* The body of the loop of check_type_mismatch_python for the window starting at i.
PyMismatchAt(toks, i, errs) ==
    IF toks[i].type # "IDENTIFIER" THEN errs
    ELSE IF toks[i + 1].value # <<":">> THEN errs
    ELSE IF toks[i + 2].type # "KEYWORD" THEN errs
    ELSE IF toks[i + 3].value # <<"=">> THEN errs
    ELSE LET declared_type == toks[i + 2].value
             value_type == toks[i + 4].type
         IN  IF declared_type = T_int /\ value_type = "FLOAT_LITERAL"
             THEN AddError(errs, MkError(
                      "Type mismatch - '%s' declared as int but assigned float value %s",
                      <<toks[i].value, toks[i + 4].value>>, toks[i].line, ERROR_TYPE_TYPE_MISMATCH))
             ELSE IF (declared_type = T_int \/ declared_type = T_float) /\ value_type = "STRING_LITERAL"
             THEN AddError(errs, MkError(
                      "Type mismatch - '%s' declared as %s but assigned string value",
                      <<toks[i].value, declared_type>>, toks[i].line, ERROR_TYPE_TYPE_MISMATCH))
             ELSE IF declared_type = T_str /\ (value_type = "INT_LITERAL" \/ value_type = "FLOAT_LITERAL")
             THEN AddError(errs, MkError(
                      "Type mismatch - '%s' declared as str but assigned numeric value %s",
                      <<toks[i].value, toks[i + 4].value>>, toks[i].line, ERROR_TYPE_TYPE_MISMATCH))
             ELSE errs

\* for (int i = 0; i < count - 4; i++)
\* PyMismatchLoop with `i < count - 5` for `i < count - 4`.
PyMismatchLoopShort(toks, errs) ==
    ForLoop(LAMBDA i, e : PyMismatchAt(toks, i, e), 1, Len(toks) - 5, errs)

PyMismatchLoop(toks, errs) ==
    ForLoop(LAMBDA i, e : PyMismatchAt(toks, i, e), 1, Len(toks) - 4, errs)

check_type_mismatch_python(toks, errs) == PyMismatchLoop(toks, errs)

\* The body of the loop of check_type_mismatch_typescript for the window starting at i.
TsMismatchAt(toks, i, errs) ==
    LET is_declaration == toks[i].value = K_let \/ toks[i].value = K_const \/ toks[i].value = K_var
    IN  IF ~is_declaration THEN errs
        ELSE IF toks[i + 1].type # "IDENTIFIER" THEN errs
        ELSE IF toks[i + 2].value # <<":">> THEN errs
        ELSE IF toks[i + 4].value # <<"=">> THEN errs
        ELSE LET declared_type == toks[i + 3].value
                 value_type == toks[i + 5].type
             IN  IF declared_type = T_number /\ value_type = "STRING_LITERAL"
                 THEN AddError(errs, MkError(
                          "Type mismatch - '%s' declared as number but assigned string value",
                          <<toks[i + 1].value>>, toks[i].line, ERROR_TYPE_TYPE_MISMATCH))
                 ELSE IF declared_type = T_string /\ (value_type = "INT_LITERAL" \/ value_type = "FLOAT_LITERAL")
                 THEN AddError(errs, MkError(
                          "Type mismatch - '%s' declared as string but assigned numeric value %s",
                          <<toks[i + 1].value, toks[i + 5].value>>, toks[i].line, ERROR_TYPE_TYPE_MISMATCH))
                 ELSE IF /\ declared_type = T_boolean
                         /\ toks[i + 5].value # <<"t","r","u","e">>
                         /\ toks[i + 5].value # <<"f","a","l","s","e">>
                 THEN AddError(errs, MkError(
                          "Type mismatch - '%s' declared as boolean but assigned non-boolean value",
                          <<toks[i + 1].value>>, toks[i].line, ERROR_TYPE_TYPE_MISMATCH))
                 ELSE errs

\* for (int i = 0; i < count - 5; i++)
TsMismatchLoop(toks, errs) ==
    ForLoop(LAMBDA i, e : TsMismatchAt(toks, i, e), 1, Len(toks) - 5, errs)

check_type_mismatch_typescript(toks, errs) == TsMismatchLoop(toks, errs)

(* ERROR 3: Undeclared Identifiers *)

\* The symbol table is the sequence of the names symbol_table[0 .. symbol_count-1].name.
\* AddSymbol without the search for the name.
AddSymbolAgain(table, name) ==
    IF Len(table) < MAX_SYMBOLS THEN Append(table, name) ELSE table

AddSymbol(table, name) ==
    LET already_exists == \E k \in DOMAIN table : table[k] = name
    IN  IF ~already_exists /\ Len(table) < MAX_SYMBOLS THEN Append(table, name) ELSE table

\* for (j = i + 1; j < count && strcmp(tokens[j].value, stop) != 0; j++): Python's
\* def/for loop, which adds every IDENTIFIER up to the next ":".
PyParamLoop(toks, from, table) ==
    Iterate(LAMBDA s : [j |-> s.j + 1,
                        table |-> IF toks[s.j].type = "IDENTIFIER"
                                  THEN AddSymbol(s.table, toks[s.j].value) ELSE s.table],
            LAMBDA s : ~(s.j <= Len(toks) /\ toks[s.j].value # <<":">>),
            [j |-> from, table |-> table], Len(toks)).table

\* The body of the loop of pass 1.
PyPass1At(toks, i, table) ==
    LET t1 == IF /\ toks[i].type = "IDENTIFIER"
                 /\ toks[i + 1].value = <<"=">>
                 /\ toks[i + 1].value # <<"=","=">>
              THEN AddSymbol(table, toks[i].value) ELSE table
    IN  IF toks[i].value = <<"d","e","f">> \/ toks[i].value = <<"f","o","r">>
        THEN PyParamLoop(toks, i + 1, t1) ELSE t1

\* Pass 1: for (int i = 0; i < count - 1; i++)
PyPass1(toks) == ForLoop(LAMBDA i, t : PyPass1At(toks, i, t), 1, Len(toks) - 1, <<>>)

\* PyBuiltins without `type`.
PyBuiltinsShort ==
    { <<"p","r","i","n","t">>, <<"l","e","n">>, <<"r","a","n","g","e">>,
      <<"i","n","p","u","t">>, <<"o","p","e","n">> }

PyBuiltins ==
    { <<"p","r","i","n","t">>, <<"l","e","n">>, <<"r","a","n","g","e">>,
      <<"i","n","p","u","t">>, <<"o","p","e","n">>, <<"t","y","p","e">> }

UndeclaredError(tok) ==
    MkError("Undeclared identifier - '%s' used but never declared",
            <<tok.value>>, tok.line, ERROR_TYPE_UNDECLARED_IDENTIFIER)

IsDeclared(table, name) == \E j \in DOMAIN table : table[j] = name

\* The body of the loop of pass 2.
PyPass2At(toks, i, table, errs) ==
    IF toks[i].type # "IDENTIFIER" \/ is_python_keyword(toks[i].value) THEN errs
    ELSE IF i + 1 <= Len(toks) /\ toks[i + 1].value = <<"=">> THEN errs   \* Skip declarations
    ELSE IF toks[i].value \in PyBuiltins THEN errs                        \* Skip built-in functions
    ELSE IF ~IsDeclared(table, toks[i].value) THEN AddError(errs, UndeclaredError(toks[i]))
    ELSE errs

\* Pass 2: Check for undeclared usage
PyPass2(toks, table, errs) ==
    ForLoop(LAMBDA i, e : PyPass2At(toks, i, table, e), 1, Len(toks), errs)

\* [table, errors]: the symbol table at the end of pass 1 and the error list at the end.
check_undeclared_identifier_python(toks, errs) ==
    LET table == PyPass1(toks)
    IN  [table |-> table, errors |-> PyPass2(toks, table, errs)]

\* TypeScript's function loop: identifiers right after `function`, `(` or `,` up to the next `)`.
\* TsParamLoop adding every IDENTIFIER up to the next ")".
TsParamLoopAll(toks, i, table) ==
    Iterate(LAMBDA s : [j |-> s.j + 1,
                        table |-> IF toks[s.j].type = "IDENTIFIER"
                                  THEN AddSymbol(s.table, toks[s.j].value) ELSE s.table],
            LAMBDA s : ~(s.j <= Len(toks) /\ toks[s.j].value # <<")">>),
            [j |-> i + 1, table |-> table], Len(toks)).table

TsParamLoop(toks, i, table) ==
    Iterate(LAMBDA s : [j |-> s.j + 1,
                        table |-> IF /\ toks[s.j].type = "IDENTIFIER"
                                     /\ \/ s.j = i + 1
                                        \/ toks[s.j - 1].value = <<"(">>
                                        \/ toks[s.j - 1].value = <<",">>
                                  THEN AddSymbol(s.table, toks[s.j].value) ELSE s.table],
            LAMBDA s : ~(s.j <= Len(toks) /\ toks[s.j].value # <<")">>),
            [j |-> i + 1, table |-> table], Len(toks)).table

IsDeclKeyword(value) == value = K_let \/ value = K_const \/ value = K_var

TsPass1At(toks, i, table) ==
    LET t1 == IF IsDeclKeyword(toks[i].value) /\ toks[i + 1].type = "IDENTIFIER"
              THEN AddSymbol(table, toks[i + 1].value) ELSE table
    IN  IF toks[i].value = K_function THEN TsParamLoop(toks, i, t1) ELSE t1

\* Pass 1: for (int i = 0; i < count - 1; i++)
TsPass1(toks) == ForLoop(LAMBDA i, t : TsPass1At(toks, i, t), 1, Len(toks) - 1, <<>>)

TsGlobals ==
    { <<"c","o","n","s","o","l","e">>, <<"l","o","g">>, <<"d","o","c","u","m","e","n","t">>,
      <<"w","i","n","d","o","w">>, <<"M","a","t","h">>, <<"A","r","r","a","y">> }

TsPass2At(toks, i, table, errs) ==
    IF toks[i].type # "IDENTIFIER" \/ is_typescript_keyword(toks[i].value) THEN errs
    ELSE IF i > 1 /\ (IsDeclKeyword(toks[i - 1].value) \/ toks[i - 1].value = K_function)
    THEN errs                                                 \* Skip declarations
    ELSE IF toks[i].value \in TsGlobals THEN errs             \* Skip common globals
    ELSE IF ~IsDeclared(table, toks[i].value) THEN AddError(errs, UndeclaredError(toks[i]))
    ELSE errs

\* Pass 2: Check for undeclared usage
TsPass2(toks, table, errs) ==
    ForLoop(LAMBDA i, e : TsPass2At(toks, i, table, e), 1, Len(toks), errs)

check_undeclared_identifier_typescript(toks, errs) ==
    LET table == TsPass1(toks)
    IN  [table |-> table, errors |-> TsPass2(toks, table, errs)]

(* ERROR 4: Invalid Operators *)

OperatorError(fmt, tok) == MkError(fmt, <<>>, tok.line, ERROR_TYPE_INVALID_OPERATOR)

PyInvalidOperatorAt(tok, errs) ==
    IF tok.type # "OPERATOR" THEN errs
    ELSE IF tok.value = <<"=","=","=">>
    THEN AddError(errs, OperatorError("Invalid operator - '===' is not valid in Python, use '==' instead", tok))
    ELSE IF tok.value = <<"!","=","=">>
    THEN AddError(errs, OperatorError("Invalid operator - '!==' is not valid in Python, use '!=' instead", tok))
    ELSE IF tok.value = <<"=","<">>
    THEN AddError(errs, OperatorError("Invalid operator - '=<' should be '<='", tok))
    ELSE IF tok.value = <<"=",">">>
    THEN AddError(errs, OperatorError("Invalid operator - '=>' is not valid in Python, use '>=' for comparison", tok))
    ELSE errs

\* for (int i = 0; i < count; i++)
PyInvalidOperatorLoop(toks, errs) ==
    ForLoop(LAMBDA i, e : PyInvalidOperatorAt(toks[i], e), 1, Len(toks), errs)

check_invalid_operator_python(toks, errs) == PyInvalidOperatorLoop(toks, errs)

\* TsInvalidOperatorAt applying Python's rules.
TsInvalidOperatorAtAsPython(tok, errs) == PyInvalidOperatorAt(tok, errs)

TsInvalidOperatorAt(tok, errs) ==
    IF tok.type # "OPERATOR" THEN errs
    ELSE IF tok.value = <<"=","<">>
    THEN AddError(errs, OperatorError("Invalid operator - '=<' should be '<='", tok))
    ELSE errs

TsInvalidOperatorLoop(toks, errs) ==
    ForLoop(LAMBDA i, e : TsInvalidOperatorAt(toks[i], e), 1, Len(toks), errs)

check_invalid_operator_typescript(toks, errs) == TsInvalidOperatorLoop(toks, errs)

(***************************************************************************)
(* SECTION 8: main().  The inputs of a run are the text of the file and    *)
(* the language detected from its extension.                               *)
(***************************************************************************)

\* The scenarios of the specification, as source texts.
ScenarioA == <<"w","h","i","l","l","e"," ","T","r","u","e",":","\n"," "," "," "," ","p","a","s","s">>
ScenarioB == <<"x",":"," ","i","n","t"," ","="," ","3",".","1","4">>
ScenarioC == <<"i","f"," ","(","a"," ","=","<"," ","b",")"," ","{"," ","}">>
ScenarioD == <<"x"," ","="," ","1","\n","p","r","i","n","t","(","y",")">>
ScenarioE == <<"x"," ","="," ","1","\n","y"," ","="," ","2","\n","p","r","i","n","t","(","x"," ","+"," ","y",")">>
ScenarioF == <<"'","'","'","\n","l","i","n","e"," ","t","w","o","\n","'","'","'","\n","z"," ","="," ","1">>
Scenarios == {ScenarioA, ScenarioB, ScenarioC, ScenarioD, ScenarioE, ScenarioF}

\* The texts made of at most n words of the vocabulary V, concatenated.
RECURSIVE Concats(_, _)
Concats(V, n) ==
    IF n = 0 THEN {<<>>}
    ELSE LET P == Concats(V, n - 1) IN P \cup {p \o w : p \in P, w \in V}

\* A write past the end of an array allocated by malloc (token_array, comment_array,
\* error_array are allocated back to back) is undefined behaviour: the run either
\* goes on to the next stage or is aborted.
Outcomes(count, capacity, next) == IF count > capacity THEN {next, "crashed"} ELSE {next}

\* A file name that main() accepts for the language.
FileNameOf(l) == IF l = LANG_PYTHON THEN <<"m", ".", "p", "y">> ELSE <<"m", ".", "t", "s">>

\* The state when the first stage starts: the arguments were accepted, the file was
\* read, the arrays are allocated and the three counters are 0.
InitWith(Sources, Languages) ==
    /\ source \in Sources
    /\ lang \in Languages
    /\ pc = "extract"
    /\ comments = <<>>
    /\ clean = <<>>
    /\ cleanmap = <<>>
    /\ tokens = <<>>
    /\ symbols = <<>>
    /\ errors = <<>>
    /\ argv = <<FileNameOf(lang)>>
    /\ readable = TRUE
    /\ exit_status = -1
    /\ previous = <<>>
    /\ levcall = [str1 |-> <<>>, str2 |-> <<>>, distance |-> -1]

\* The content of a comment is copied into content[MAX_LENGTH] with no test of the
\* index.  From the 1025th byte on, the characters and the terminator are written over
\* start_line, end_line and is_multiline, which follow content in the struct (and over
\* the next comment): undefined behaviour.  The fields written before the copy are
\* lost; the run may also be aborted.
Overrun(c) == Len(c.content) >= MAX_LENGTH
CommentOutcomes(c) ==
    IF Overrun(c)
    THEN {[c EXCEPT !.start_line = s, !.end_line = e, !.is_multiline = m] :
             s \in {c.start_line, 0}, e \in {c.end_line, 0}, m \in BOOLEAN}
    ELSE {c}
CommentListOutcomes(list) ==
    IF \A i \in DOMAIN list : ~Overrun(list[i]) THEN {list}
    ELSE {cs \in [DOMAIN list -> UNION {CommentOutcomes(list[i]) : i \in DOMAIN list}] :
             \A i \in DOMAIN list : cs[i] \in CommentOutcomes(list[i])}

\* Extract comments
ExtractComments ==
    /\ pc = "extract"
    /\ LET r == IF lang = LANG_PYTHON THEN extract_comments_python(source)
                ELSE extract_comments_typescript(source)
       IN  /\ comments' \in CommentListOutcomes(r.comments)
           /\ clean' = r.clean
           /\ cleanmap' = r.cleanmap
           /\ pc' \in Outcomes(Len(r.comments), MAX_COMMENTS, "tokenize")
                       \cup (IF \E i \in DOMAIN r.comments : Overrun(r.comments[i])
                             THEN {"crashed"} ELSE {})
    /\ UNCHANGED <<source, lang, tokens, symbols, errors>>
    /\ UNCHANGED <<boundary, previous, levcall>>

\* Tokenize
Tokenize ==
    /\ pc = "tokenize"
    /\ tokens' = IF lang = LANG_PYTHON THEN tokenize_python(clean) ELSE tokenize_typescript(clean)
    /\ pc' \in IF \E i \in DOMAIN tokens' : Len(tokens'[i].value) >= TOKEN_VALUE_SIZE
                THEN {"misspelled", "crashed"} ELSE {"misspelled"}
    /\ UNCHANGED <<source, lang, comments, clean, cleanmap, symbols, errors>>
    /\ UNCHANGED <<boundary, previous, levcall>>

\* Perform error detection
CheckMisspelledKeyword ==
    /\ pc = "misspelled"
    /\ errors' = IF lang = LANG_PYTHON THEN check_misspelled_keyword_python(tokens, errors)
                 ELSE check_misspelled_keyword_typescript(tokens, errors)
    /\ pc' \in Outcomes(Len(errors'), MAX_ERRORS, "type_mismatch")
    /\ UNCHANGED <<source, lang, comments, clean, cleanmap, tokens, symbols>>
    /\ UNCHANGED <<boundary, previous, levcall>>

CheckTypeMismatch ==
    /\ pc = "type_mismatch"
    /\ errors' = IF lang = LANG_PYTHON THEN check_type_mismatch_python(tokens, errors)
                 ELSE check_type_mismatch_typescript(tokens, errors)
    /\ pc' \in Outcomes(Len(errors'), MAX_ERRORS, "undeclared")
    /\ UNCHANGED <<source, lang, comments, clean, cleanmap, tokens, symbols>>
    /\ UNCHANGED <<boundary, previous, levcall>>

CheckUndeclaredIdentifier ==
    /\ pc = "undeclared"
    /\ LET r == IF lang = LANG_PYTHON THEN check_undeclared_identifier_python(tokens, errors)
                ELSE check_undeclared_identifier_typescript(tokens, errors)
       IN  /\ errors' = r.errors
           /\ symbols' = r.table
           /\ pc' \in Outcomes(Len(r.errors), MAX_ERRORS, "invalid_operator")
    /\ UNCHANGED <<source, lang, comments, clean, cleanmap, tokens>>
    /\ UNCHANGED <<boundary, previous, levcall>>

CheckInvalidOperator ==
    /\ pc = "invalid_operator"
    /\ errors' = IF lang = LANG_PYTHON THEN check_invalid_operator_python(tokens, errors)
                 ELSE check_invalid_operator_typescript(tokens, errors)
    /\ pc' \in Outcomes(Len(errors'), MAX_ERRORS, "done")
    /\ UNCHANGED <<source, lang, comments, clean, cleanmap, tokens, symbols>>
    /\ UNCHANGED <<boundary, previous, levcall>>

Next ==
    \/ ExtractComments
    \/ Tokenize
    \/ CheckMisspelledKeyword
    \/ CheckTypeMismatch
    \/ CheckUndeclaredIdentifier
    \/ CheckInvalidOperator

(***************************************************************************)
(* Input families.  Every specification runs the same pipeline; they       *)
(* differ in the bounded set of source texts the run may be given.         *)
(***************************************************************************)

\* Lexical family: comment openers and closers, a quote, a newline, an identifier.
MaxWords == 4
LexWords == { <<"\n">>, <<"#">>, <<"'","'","'">>, <<"/","*">>, <<"*","/">>, <<"z">>, <<"\"">> }
Init == InitWith(Scenarios \cup Concats(LexWords, MaxWords), Language)
Spec == Init /\ [][Next]_vars

\* Identifiers near to and far from keywords, on one line or two.
MaxMisspellWords == 2
MisspellWords ==
    { <<"w","h","i","l","l","e","\n">>,            \* distance 1 from while
      <<"I","n","t"," ">>,                         \* distance 0 from int, 1 from in
      <<"l","e","t","t","\n">>,                    \* distance 1 from let
      <<"p","r","i","n","t"," ">>,                 \* distance 2 from int
      <<"W","h","i","l","e"," ">>,                 \* an identifier at distance 0 from while
      <<"f","o"," ">>,                             \* length 2
      <<"f","r","o","\n">>,                        \* near for and from
      <<"z","z","z","z","z","z"," ">>,             \* near no keyword
      <<"w","h","i","l","e"," ">>,                 \* a keyword
      <<"\"","w","h","i","l","l","e","\""," ">>,   \* a string literal
      <<"w","h","i","l","e","x","y","z"," ">> }    \* distance 3 from while
InitMisspell == InitWith(Scenarios \cup Concats(MisspellWords, MaxMisspellWords), Language)
SpecMisspell == InitMisspell /\ [][Next]_vars

\* Python declarations `x: T = v`, one per line, and near misses of the pattern.
MaxDecls == 2
PyDeclTypes == { T_int, T_float, T_str, <<"b","o","o","l">>, <<"y">> }
DeclValues == { <<"1">>, <<"3",".","1","4">>, <<"\"","s","\"">>, <<"y">> }
PyDecls ==
    { <<"x",":"," ">> \o t \o <<" ","="," ">> \o v \o <<"\n">> : t \in PyDeclTypes, v \in DeclValues }
    \cup { <<"1",":"," ","i","n","t"," ","="," ","3",".","1","4","\n">>,
           <<"x",";"," ","i","n","t"," ","="," ","3",".","1","4","\n">>,
           <<"x",":"," ","i","n","t"," ","=","="," ","3",".","1","4","\n">>,
           <<"x",":"," ","i","n","t"," ","=","\n">> }
InitTypesPy == InitWith(Scenarios \cup Concats(PyDecls, MaxDecls), {LANG_PYTHON})
SpecTypesPy == InitTypesPy /\ [][Next]_vars

\* TypeScript declarations `let x: T = v`, one per line, and near misses of the pattern.
TsDeclTypes == { T_number, T_string, T_boolean, <<"a","n","y">> }
TsDeclValues == DeclValues \cup { <<"t","r","u","e">>, <<"n","u","l","l">> }
TsDecls ==
    { <<"l","e","t"," ","x",":"," ">> \o t \o <<" ","="," ">> \o v \o <<"\n">> : t \in TsDeclTypes, v \in TsDeclValues }
    \cup { <<"c","o","n","s","t"," ","x",":"," ","n","u","m","b","e","r"," ","="," ","\"","s","\"","\n">>,
           <<"v","a","r"," ","x",":"," ","s","t","r","i","n","g"," ","="," ","1","\n">>,
           <<"l","e","t"," ","1",":"," ","n","u","m","b","e","r"," ","="," ","\"","s","\"","\n">>,
           <<"l","e","t"," ","x",";"," ","n","u","m","b","e","r"," ","="," ","\"","s","\"","\n">>,
           <<"l","e","t"," ","x",":"," ","n","u","m","b","e","r"," ","=","="," ","\"","s","\"","\n">> }
InitTypesTs == InitWith(Scenarios \cup Concats(TsDecls, MaxDecls), {LANG_TYPESCRIPT})
SpecTypesTs == InitTypesTs /\ [][Next]_vars

\* Python assignments, uses, def and for headers, and calls of built-ins.
MaxUndeclWords == 3
UndeclWords ==
    { <<"x"," ","="," ","1","\n">>,
      <<"x"," ">>,
      <<"y","\n">>,
      <<"p","r","i","n","t","(","y",")","\n">>,
      <<"d","e","f"," ","f","(","a",")",":","\n">>,
      <<"f","o","r"," ","i"," ","i","n"," ","y",":","\n">>,
      <<"x"," ","=","="," ","1","\n">>,
      <<"a"," ">>,
      <<"t","y","p","e","(","f",")","\n">> }
InitUndecl == InitWith(Scenarios \cup Concats(UndeclWords, MaxUndeclWords), {LANG_PYTHON})
SpecUndecl == InitUndecl /\ [][Next]_vars

\* Operators, valid and invalid, an operand, a newline, a string holding an operator.
MaxOpWords == 3
OpWords ==
    { <<"a"," ">>, <<"=","=","="," ">>, <<"!","=","="," ">>, <<"=","<"," ">>, <<"=",">"," ">>,
      <<"=","="," ">>, <<"\n">>, <<"\"","=","<","\""," ">>, <<"=","<","="," ">> }
InitOps == InitWith(Scenarios \cup Concats(OpWords, MaxOpWords), Language)
SpecOps == InitOps /\ [][Next]_vars

\* One word for each kind of error, and a newline.
MaxOrderWords == 3
OrderWords ==
    { <<"w","h","i","l","l","e","\n">>,
      <<"x",":"," ","i","n","t"," ","="," ","3",".","1","4","\n">>,
      <<"y"," ">>,
      <<"=","<"," ">>,
      <<"l","e","t"," ","x",":"," ","n","u","m","b","e","r"," ","="," ","\"","s","\"","\n">>,
      <<"\n">> }
InitOrder == InitWith(Scenarios \cup Concats(OrderWords, MaxOrderWords), Language)
SpecOrder == InitOrder /\ [][Next]_vars

\* Capacity family: a one-line comment, or an undeclared identifier, repeated.
MaxRepeat == 101
RepeatUnits == { <<"#","\n">>, <<"/","/","\n">>, <<"y"," ">> }
Repeat(unit, n) == [k \in 1..(n * Len(unit)) |-> unit[((k - 1) % Len(unit)) + 1]]
InitCap == InitWith({Repeat(u, n) : u \in RepeatUnits, n \in 0..MaxRepeat}, Language)
SpecCap == InitCap /\ [][Next]_vars

\* Token family: identifiers, numbers, strings with an escape, operator runs,
\* delimiters, characters that start no token, white space.
MaxTokenWords == 3
TokenWords ==
    { <<"a","1"," ">>, <<"$","b">>, <<"@">>, <<"1",".","5">>, <<"\"","\\","\"">>, <<"'">>,
      <<"=","=",">","=">>, <<"(">>, <<"\n">>, <<Backtick>> }
InitTokens == InitWith(Scenarios \cup Concats(TokenWords, MaxTokenWords), Language)
SpecTokens == InitTokens /\ [][Next]_vars

\* Long-token family: an identifier, a number or a string literal of about
\* TOKEN_VALUE_SIZE characters, alone or in an assignment.
MaxValueRepeat == 257
LongUnits == { <<"a">>, <<"1">> }
LongPrefixes == { <<>>, <<"\"">>, <<"x", " ", "=", " ">> }
LongSuffixes == { <<>>, <<" ", "=", " ", "1">> }
LongRepeats == (MaxValueRepeat - 4)..MaxValueRepeat
InitLong ==
    InitWith({pre \o Repeat(u, n) \o suf :
                 pre \in LongPrefixes, u \in LongUnits, n \in LongRepeats, suf \in LongSuffixes},
             Language)
SpecLong == InitLong /\ [][Next]_vars

\* Buffer family: a number or a string literal of about TOKEN_VALUE_SIZE characters,
\* and a single-line or multi-line comment of about MAX_LENGTH characters, alone or
\* followed by a second comment.
MaxContentRepeat == 1025
ContentRepeats == (MaxContentRepeat - 4)..MaxContentRepeat
CommentOpeners == { <<"#">>, <<"/", "/">>, <<"/", "*">>, <<"'", "'", "'">> }
InitBuffers ==
    InitWith({pre \o Repeat(<<"1">>, n) : pre \in { <<>>, <<"\"">> }, n \in LongRepeats}
             \cup {pre \o Repeat(<<"1">>, n) \o suf :
                      pre \in CommentOpeners, n \in ContentRepeats,
                      suf \in { <<>>, <<"\n", "#", "\n", "/", "/">> }},
             Language)
SpecBuffers == InitBuffers /\ [][Next]_vars

\* Calls of levenshtein_distance: the arguments are strings of at most MaxLevLen
\* characters over a letter in both cases and a second letter.
MaxLevLen == 3
LevAlphabet == { <<"a">>, <<"A">>, <<"b">> }
LevStrings == Concats(LevAlphabet, MaxLevLen)
InitLev ==
    /\ levcall \in [str1 : LevStrings, str2 : LevStrings, distance : {-1}]
    /\ pc = "levenshtein_distance"
    /\ source = <<>>
    /\ lang = LANG_PYTHON
    /\ comments = <<>>
    /\ clean = <<>>
    /\ cleanmap = <<>>
    /\ tokens = <<>>
    /\ symbols = <<>>
    /\ errors = <<>>
    /\ argv = <<>>
    /\ readable = TRUE
    /\ exit_status = -1
    /\ previous = <<>>

\* The call runs and returns.
LevenshteinDistance ==
    /\ pc = "levenshtein_distance"
    /\ levcall' = [levcall EXCEPT !.distance = levenshtein_distance(levcall.str1, levcall.str2)]
    /\ pc' = "returned"
    /\ UNCHANGED <<source, lang, comments, clean, cleanmap, tokens, symbols, errors,
                   boundary, previous>>

NextLev == LevenshteinDistance
SpecLev == InitLev /\ [][NextLev]_vars

\* Repeated runs: the program is run MaxRuns times on the same file.  main() sets
\* its three counters to 0; the clean-code buffer it gets from malloc and the symbol
\* table on the stack of the detector hold whatever was there, here what the run
\* before left.
MaxRuns == 2
MaxRunWords == 2
RunWords == OrderWords \cup { <<"#", "c", "\n">>, <<"/", "*", "c", "*", "/">> }
InitRuns == InitWith(Scenarios \cup Concats(RunWords, MaxRunWords), Language)

\* Rerun that leaves total_errors as it is.
RerunKeepErrors ==
    /\ pc = "done"
    /\ Len(previous) < MaxRuns - 1
    /\ previous' = Append(previous, [tokens |-> tokens, comments |-> comments, errors |-> errors])
    /\ comments' = <<>>
    /\ tokens' = <<>>
    /\ pc' = "extract"
    /\ UNCHANGED <<source, lang, clean, cleanmap, symbols, errors, boundary, levcall>>

Rerun ==
    /\ pc = "done"
    /\ Len(previous) < MaxRuns - 1
    /\ previous' = Append(previous, [tokens |-> tokens, comments |-> comments, errors |-> errors])
    /\ comments' = <<>>
    /\ tokens' = <<>>
    /\ errors' = <<>>
    /\ pc' = "extract"
    /\ UNCHANGED <<source, lang, clean, cleanmap, symbols, boundary, levcall>>

NextRuns == Next \/ Rerun
SpecRuns == InitRuns /\ [][NextRuns]_vars

\* int validate_and_detect_language(const char *filename, Language *lang): the value
\* returned and the language left in *lang (l is what *lang held before the call).
\* ext is the position of the last "." of filename, 0 when there is none.
validate_and_detect_language(filename, l) ==
    LET dots == {k \in DOMAIN filename : filename[k] = "."}
        ext == IF dots = {} THEN 0 ELSE CHOOSE k \in dots : \A d \in dots : d <= k
        suffix == SubSeq(filename, ext, Len(filename))
    IN IF ext = 0 \/ ext = 1 THEN [ret |-> 0, lang |-> l]
       ELSE IF suffix = <<".", "p", "y">> THEN [ret |-> 1, lang |-> LANG_PYTHON]
       ELSE IF suffix = <<".", "t", "s">> \/ suffix = <<".", "j", "s">>
            THEN [ret |-> 1, lang |-> LANG_TYPESCRIPT]
       ELSE [ret |-> 0, lang |-> l]

argc == Len(argv) + 1

\* main: if (argc < 2) return 1;  if (argc > 2) return 1;
CheckArguments ==
    /\ pc = "main"
    /\ IF argc < 2 \/ argc > 2
       THEN pc' = "exited" /\ exit_status' = 1
       ELSE pc' = "validate" /\ UNCHANGED exit_status
    /\ UNCHANGED <<source, lang, comments, clean, cleanmap, tokens, symbols, errors,
                   argv, readable, previous, levcall>>

\* main: if (!validate_and_detect_language(argv[1], &detected_language)) return 1;
ValidateAndDetectLanguage ==
    /\ pc = "validate"
    /\ LET r == validate_and_detect_language(argv[1], lang) IN
          /\ lang' = r.lang
          /\ IF r.ret = 0
             THEN pc' = "exited" /\ exit_status' = 1
             ELSE pc' = "read_file" /\ UNCHANGED exit_status
    /\ UNCHANGED <<source, comments, clean, cleanmap, tokens, symbols, errors,
                   argv, readable, previous, levcall>>

\* main: source_code = read_file(argv[1]); if (!source_code) return 1;  then the
\* allocations and the counters.  read_file returns NULL when fopen fails.
ReadFile ==
    /\ pc = "read_file"
    /\ IF ~readable
       THEN pc' = "exited" /\ exit_status' = 1
       ELSE pc' = "extract" /\ UNCHANGED exit_status
    /\ UNCHANGED <<source, lang, comments, clean, cleanmap, tokens, symbols, errors,
                   argv, readable, previous, levcall>>

\* PrintResults returning 1 when an error was recorded.
PrintResultsErrorStatus ==
    /\ pc = "done"
    /\ pc' = "exited"
    /\ exit_status' = IF errors = <<>> THEN 0 ELSE 1
    /\ UNCHANGED <<source, lang, comments, clean, cleanmap, tokens, symbols, errors,
                   argv, readable, previous, levcall>>

\* main: print_results(...); the five free(); return 0;
PrintResults ==
    /\ pc = "done"
    /\ pc' = "exited"
    /\ exit_status' = 0
    /\ UNCHANGED <<source, lang, comments, clean, cleanmap, tokens, symbols, errors,
                   argv, readable, previous, levcall>>

\* Whole-program family: at most MaxArgs arguments, the first a file name with or
\* without an extension, a file that can or cannot be opened, and as its text one of
\* the Scenarios.  source is the text of the file; lang is not yet set.
MaxArgs == 2
FileNames ==
    { <<"a", ".", "p", "y">>, <<"a", ".", "t", "s">>, <<"a", ".", "j", "s">>,
      <<"a", ".", "t", "x", "t">>, <<"a", ".", "P", "Y">>, <<"a", ".", "p", "y", ".", "c">>,
      <<"a", ".", "p", "y", "c">>, <<"a", "p", "y">>, <<"a">>, <<".", "p", "y">>,
      <<"d", "/", ".", "t", "s">>, <<"a", ".", "c", "/", "p", "y">>, <<"a", ".">> }
InitMain ==
    /\ argv \in {<<>>} \cup {<<f>> : f \in FileNames}
                 \cup UNION {[1..n -> {<<"a", ".", "p", "y">>}] : n \in 2..MaxArgs}
    /\ readable \in BOOLEAN
    /\ source \in Scenarios
    /\ lang = "unset"
    /\ pc = "main"
    /\ exit_status = -1
    /\ comments = <<>>
    /\ clean = <<>>
    /\ cleanmap = <<>>
    /\ tokens = <<>>
    /\ symbols = <<>>
    /\ errors = <<>>
    /\ previous = <<>>
    /\ levcall = [str1 |-> <<>>, str2 |-> <<>>, distance |-> -1]

NextMain ==
    \/ CheckArguments
    \/ ValidateAndDetectLanguage
    \/ ReadFile
    \/ Next
    \/ PrintResults
SpecMain == InitMain /\ [][NextMain]_vars

\* Symbol-table family (Python): short texts with `=`, `==`, `+=`, `=-`, def and for
\* with and without `:`, and texts that declare about MAX_SYMBOLS different names
\* after a def or for, or by chained assignments.  NameList(n) is n different
\* two-character names, each after a space; AssignList(n) puts ` =` after each.
MaxSymbolWords == 2
MaxSymbolNames == 501
SymbolName(k) == <<UpperSeq[((k - 1) \div 26) + 1], LowerSeq[((k - 1) % 26) + 1]>>
NameList(n) ==
    [p \in 1..(3 * n) |->
        IF (p - 1) % 3 = 0 THEN " " ELSE SymbolName(((p - 1) \div 3) + 1)[(p - 1) % 3]]
AssignList(n) ==
    [p \in 1..(5 * n) |->
        IF (p - 1) % 5 = 0 THEN " "
        ELSE IF (p - 1) % 5 \in {1, 2} THEN SymbolName(((p - 1) \div 5) + 1)[(p - 1) % 5]
        ELSE IF (p - 1) % 5 = 3 THEN " " ELSE "="]
SymbolWords ==
    { <<"x"," ","="," ","1","\n">>, <<"x"," ","=","="," ","1","\n">>,
      <<"x"," ","+","="," ","1","\n">>, <<"x"," ","=","-"," ","1","\n">>,
      <<"d","e","f"," ","f","(","a",","," ","b",")",":","\n">>,
      <<"f","o","r"," ","i"," ","i","n"," ","r","\n">>,
      <<"x"," ","y","\n">>, <<"x","=","\n">> }
SymbolCounts == (0..2) \cup ((MaxSymbolNames - 2)..MaxSymbolNames)
SymbolTexts ==
    {head \o NameList(n) \o tail :
        head \in { <<"d","e","f">>, <<"f","o","r">> }, n \in SymbolCounts,
        tail \in { <<>>, <<":"," ","Z","z">>, <<" ","="," ","1">> }}
    \cup {AssignList(n) \o <<" ", "1">> : n \in SymbolCounts}
InitSymbols == InitWith(Concats(SymbolWords, MaxSymbolWords) \cup SymbolTexts, {LANG_PYTHON})
SpecSymbols == InitSymbols /\ [][Next]_vars

\* Undeclared-identifier family (TypeScript): declarations by let and var, a function
\* with parameters and a name that follows neither "(" nor ",", a function with no
\* parameter list, uses of names, a global, a parenthesised list.
MaxUndeclTsWords == 3
UndeclTsWords ==
    { <<"l","e","t"," ","x"," ","="," ","1","\n">>,
      <<"v","a","r"," ","y","\n">>,
      <<"f","u","n","c","t","i","o","n"," ","f","(","a",","," ","b"," ","c",")","\n">>,
      <<"f","u","n","c","t","i","o","n"," ","g"," ">>,
      <<"(","x",","," ","d",")","\n">>,
      <<"c"," ">>,
      <<"y"," ","a","\n">>,
      <<"M","a","t","h",".","f","\n">> }
InitUndeclTs == InitWith(Scenarios \cup Concats(UndeclTsWords, MaxUndeclTsWords), {LANG_TYPESCRIPT})
SpecUndeclTs == InitUndeclTs /\ [][Next]_vars

\* String family: texts of at most MaxStringLen characters out of the two quotes, the
\* backquote, the backslash, a letter and a newline.
MaxStringLen == 4
StringChars == { <<"\"">>, <<"'">>, <<Backtick>>, <<"\\">>, <<"a">>, <<"\n">> }
InitStrings == InitWith(Concats(StringChars, MaxStringLen), Language)
SpecStrings == InitStrings /\ [][Next]_vars

\* Comment-marker family: the text `x = "a#b"`, and the texts of at most
\* MaxMarkerWords words out of the characters of the comment markers, a triple
\* quote, a double quote, a letter and a newline.
MaxMarkerWords == 4
HashInString == <<"x", " ", "=", " ", "\"", "a", "#", "b", "\"">>
MarkerWords ==
    { <<"/">>, <<"*">>, <<"#">>, <<"'", "'", "'">>, <<"\"">>, <<"a">>, <<"\n">> }
InitMarkers == InitWith({HashInString} \cup Concats(MarkerWords, MaxMarkerWords), Language)
SpecMarkers == InitMarkers /\ [][Next]_vars

\* Token-cap family: texts of about MAX_TOKENS tokens that raise no error.
MaxTokenRepeat == 1001
TokenUnits == { <<"1"," ">>, <<";">>, <<"\"","\"","\n">> }
TokenRepeats == (0..3) \cup ((MaxTokenRepeat - 3)..MaxTokenRepeat)
InitTokenCap == InitWith({Repeat(u, n) : u \in TokenUnits, n \in TokenRepeats}, Language)
SpecTokenCap == InitTokenCap /\ [][Next]_vars

(***************************************************************************)
(* Properties                                                              *)
(***************************************************************************)

\* The 1-based line of position p of a text: one more than the newlines before p.
OrigLine(src, p) == 1 + Cardinality({k \in 1..(p - 1) : src[k] = "\n"})
NumNewlines(text) == Cardinality({k \in DOMAIN text : text[k] = "\n"})
ErrorsOfType(errs, t) == SelectSeq(errs, LAMBDA e : e.type = t)

\* C1: analyzing Scenario E (x = 1, y = 2, print(x + y)) as Python ends with an
\* empty error list.
C1_ScenarioE_NoErrors ==
    (source = ScenarioE /\ lang = LANG_PYTHON /\ pc = "done") => errors = <<>>

\* C2: every token's line is the line of the original source on which the token's
\* first character lies, newlines inside removed comments included.
C2_TokenLineIsSourceLine ==
    pc \notin {"extract", "tokenize"} =>
        \A i \in DOMAIN tokens : tokens[i].line = OrigLine(source, cleanmap[tokens[i].pos])

\* C3: a single-line comment has is_multiline = FALSE and start_line = end_line; a
\* multi-line comment has is_multiline = TRUE and end_line = start_line + the number
\* of newlines of its content; start_line is the source line of the comment's first
\* character; comments are listed in order of appearance; Scenario F yields exactly
\* one comment, multi-line, from line 1 to line 3.
IsMultilineOpener(l, text) ==
    IF l = LANG_PYTHON THEN text[1] \in {"'", "\""}
    ELSE Len(text) >= 2 /\ text[1] = "/" /\ text[2] = "*"

C3_CommentLines ==
    pc # "extract" =>
        /\ \A i \in DOMAIN comments :
              LET c == comments[i]
              IN  /\ c.is_multiline = IsMultilineOpener(lang, c.content)
                  /\ ~c.is_multiline => c.start_line = c.end_line
                  /\ c.is_multiline => c.end_line = c.start_line + NumNewlines(c.content)
                  /\ c.start_line = OrigLine(source, c.pos)
                  /\ i > 1 => comments[i - 1].pos < c.pos
        /\ (source = ScenarioF /\ lang = LANG_PYTHON) =>
              /\ Len(comments) = 1
              /\ comments[1].start_line = 1
              /\ comments[1].end_line = 3
              /\ comments[1].is_multiline

\* A multi-line comment spanning several lines was extracted, and after it a
\* single-line comment that starts on the line where the multi-line comment ends.
C3_Witness ==
    /\ pc = "done"
    /\ \E i, j \in DOMAIN comments :
          /\ i < j
          /\ comments[i].is_multiline
          /\ comments[i].end_line > comments[i].start_line
          /\ ~comments[j].is_multiline
          /\ comments[j].start_line = comments[i].end_line

\* The text in lower case.
LowerText(text) == [k \in DOMAIN text |-> tolower(text[k])]
Rest(text) == SubSeq(text, 2, Len(text))

\* a can be turned into b by at most k insertions, deletions and substitutions of
\* one character.
RECURSIVE EditsWithin(_, _, _)
EditsWithin(a, b, k) ==
    IF k < 0 THEN FALSE
    ELSE IF a = <<>> THEN Len(b) <= k
    ELSE IF b = <<>> THEN Len(a) <= k
    ELSE IF a[1] = b[1] THEN EditsWithin(Rest(a), Rest(b), k)
    ELSE \/ EditsWithin(Rest(a), b, k - 1)
         \/ EditsWithin(a, Rest(b), k - 1)
         \/ EditsWithin(Rest(a), Rest(b), k - 1)

\* The case-insensitive distance d of the two words satisfies 0 < d <= 2.
Near(word, keyword) ==
    /\ LowerText(word) # LowerText(keyword)
    /\ EditsWithin(LowerText(word), LowerText(keyword), 2)

KeywordsOf(l) == IF l = LANG_PYTHON THEN PYTHON_KEYWORDS ELSE TYPESCRIPT_KEYWORDS
IsNearKeyword(l, word) == \E j \in DOMAIN KeywordsOf(l) : Near(word, KeywordsOf(l)[j])
FirstNearKeyword(l, word) ==
    LET ks == KeywordsOf(l)
        j == CHOOSE j \in DOMAIN ks : Near(word, ks[j]) /\ \A h \in 1..(j - 1) : ~Near(word, ks[h])
    IN  ks[j]

\* The tokens the misspelling detector reports, in stream order.
Misspelled(l, toks) ==
    SelectSeq(toks, LAMBDA t : t.type = "IDENTIFIER" /\ Len(t.value) > 2 /\ IsNearKeyword(l, t.value))

AfterMisspelled == pc \in {"type_mismatch", "undeclared", "invalid_operator", "done"}

\* C4: the MISSPELLED_KEYWORD errors are, in stream order, one for each IDENTIFIER
\* token longer than 2 that has a keyword of the language at case-insensitive distance
\* d, 0 < d <= 2, and none for any other token; each carries the token's line and
\* names the token and the first such keyword of the keyword list.  Scenario A as
\* Python yields exactly one, at line 1, suggesting `while`.
C4_MisspelledKeywordErrors ==
    AfterMisspelled =>
        LET errs == ErrorsOfType(errors, ERROR_TYPE_MISSPELLED_KEYWORD)
            toks == Misspelled(lang, tokens)
        IN  /\ Len(errs) = Len(toks)
            /\ \A k \in DOMAIN errs :
                  /\ errs[k].line_number = toks[k].line
                  /\ errs[k].message.fmt = "Misspelled keyword - '%s' (did you mean '%s'?)"
                  /\ errs[k].message.args = <<toks[k].value, FirstNearKeyword(lang, toks[k].value)>>
            /\ (source = ScenarioA /\ lang = LANG_PYTHON) =>
                  /\ Len(errs) = 1
                  /\ errs[1].line_number = 1
                  /\ errs[1].message.args[2] = <<"w","h","i","l","e">>

\* The detector has run on a stream with an identifier that equals a keyword but for
\* the case and is reported with a later near keyword, and an identifier longer than 2
\* that is near no keyword and is not reported.
C4_Witness ==
    /\ pc = "done"
    /\ \E k \in DOMAIN errors :
          /\ errors[k].type = ERROR_TYPE_MISSPELLED_KEYWORD
          /\ \E j \in DOMAIN KeywordsOf(lang) :
                LowerText(errors[k].message.args[1]) = LowerText(KeywordsOf(lang)[j])
    /\ \E i \in DOMAIN tokens :
          /\ tokens[i].type = "IDENTIFIER"
          /\ Len(tokens[i].value) > 2
          /\ ~IsNearKeyword(lang, tokens[i].value)

\* The indices of 1..n that satisfy P, in increasing order.
Indices(n, P(_)) == SelectSeq([i \in 1..n |-> i], P)

\* The (declared type, kind of value) pairs the Python rules name.
PyMismatchPairs ==
    { <<T_int, "FLOAT_LITERAL">>, <<T_int, "STRING_LITERAL">>, <<T_float, "STRING_LITERAL">>,
      <<T_str, "INT_LITERAL">>, <<T_str, "FLOAT_LITERAL">> }

\* Tokens i..i+4 are IDENTIFIER, `:`, KEYWORD, `=`, v.
PyDeclWindow(toks, i) ==
    /\ i + 4 <= Len(toks)
    /\ toks[i].type = "IDENTIFIER"
    /\ toks[i + 1].value = <<":">>
    /\ toks[i + 2].type = "KEYWORD"
    /\ toks[i + 3].value = <<"=">>

AfterTypeMismatch == pc \in {"undeclared", "invalid_operator", "done"}

\* C5: the TYPE_MISMATCH errors of a Python run are, in order of start offset, one for
\* each offset i at which tokens i..i+4 are IDENTIFIER, `:`, KEYWORD, `=`, v with
\* (keyword text, kind of v) one of the five pairs, and none for any other offset; each
\* carries the identifier's line and names it; a stream of fewer than 5 tokens has
\* none.  Scenario B yields exactly one, at line 1, naming `x`.
C5_PythonTypeMismatchErrors ==
    (AfterTypeMismatch /\ lang = LANG_PYTHON) =>
        LET errs == ErrorsOfType(errors, ERROR_TYPE_TYPE_MISMATCH)
            at == Indices(Len(tokens), LAMBDA i :
                      /\ PyDeclWindow(tokens, i)
                      /\ <<tokens[i + 2].value, tokens[i + 4].type>> \in PyMismatchPairs)
        IN  /\ Len(errs) = Len(at)
            /\ \A k \in DOMAIN errs :
                  /\ errs[k].line_number = tokens[at[k]].line
                  /\ errs[k].message.args[1] = tokens[at[k]].value
            /\ Len(tokens) < 5 => errs = <<>>
            /\ source = ScenarioB =>
                  /\ Len(errs) = 1
                  /\ errs[1].line_number = 1
                  /\ errs[1].message.args[1] = <<"x">>

\* A Python run has ended with one TYPE_MISMATCH error, at line 2, on a stream that
\* also holds a window of the shape whose pair is none of the five.
C5_Witness ==
    /\ pc = "done"
    /\ lang = LANG_PYTHON
    /\ LET errs == ErrorsOfType(errors, ERROR_TYPE_TYPE_MISMATCH)
       IN  Len(errs) = 1 /\ errs[1].line_number = 2
    /\ \E i \in DOMAIN tokens :
          /\ PyDeclWindow(tokens, i)
          /\ <<tokens[i + 2].value, tokens[i + 4].type>> \notin PyMismatchPairs

IsLiteral(tok) == tok.type \in {"INT_LITERAL", "FLOAT_LITERAL", "STRING_LITERAL"}

\* Tokens i..i+5 are (let|const|var), IDENTIFIER, `:`, T, `=`, v.
TsDeclWindow(toks, i) ==
    /\ i + 5 <= Len(toks)
    /\ toks[i].value \in {K_let, K_const, K_var}
    /\ toks[i + 1].type = "IDENTIFIER"
    /\ toks[i + 2].value = <<":">>
    /\ toks[i + 4].value = <<"=">>

\* The rules for a window with declared type T and a literal v.
TsLiteralMismatch(T, v) ==
    \/ T = T_number /\ v.type = "STRING_LITERAL"
    \/ T = T_string /\ v.type \in {"INT_LITERAL", "FLOAT_LITERAL"}
    \/ T = T_boolean /\ v.value \notin { <<"t","r","u","e">>, <<"f","a","l","s","e">> }

\* C6: the TYPE_MISMATCH errors of a TypeScript run are, in order of start offset, one
\* for each window (let|const|var) IDENTIFIER : T = v in which v is a literal token and
\* T, v fall under one of the three rules; a window whose sixth token is not a literal
\* yields none.
C6_TypeScriptMismatchOnlyForLiterals ==
    (AfterTypeMismatch /\ lang = LANG_TYPESCRIPT) =>
        LET errs == ErrorsOfType(errors, ERROR_TYPE_TYPE_MISMATCH)
            at == Indices(Len(tokens), LAMBDA i :
                      /\ TsDeclWindow(tokens, i)
                      /\ IsLiteral(tokens[i + 5])
                      /\ TsLiteralMismatch(tokens[i + 3].value, tokens[i + 5]))
        IN  /\ Len(errs) = Len(at)
            /\ \A k \in DOMAIN errs :
                  /\ errs[k].line_number = tokens[at[k]].line
                  /\ errs[k].message.args[1] = tokens[at[k] + 1].value

\* Token i is immediately followed by a `=` token.
FollowedByAssign(toks, i) == i + 1 <= Len(toks) /\ toks[i + 1].value = <<"=">>

\* The names pass 1 collects from a Python stream: the identifiers followed by `=`,
\* and the identifiers between a `def` or `for` and the next `:`.
PyDeclaredNames(toks) ==
    { toks[i].value : i \in { i \in 1..(Len(toks) - 1) :
          toks[i].type = "IDENTIFIER" /\ FollowedByAssign(toks, i) } }
    \cup
    { toks[j].value : j \in { j \in DOMAIN toks :
          /\ toks[j].type = "IDENTIFIER"
          /\ \E i \in 1..(Len(toks) - 1) :
                /\ i < j
                /\ toks[i].value \in { <<"d","e","f">>, <<"f","o","r">> }
                /\ \A h \in (i + 1)..j : toks[h].value # <<":">> } }

\* The token texts the Python detector never reports.
PyAllowList ==
    { <<"p","r","i","n","t">>, <<"l","e","n">>, <<"r","a","n","g","e">>,
      <<"i","n","p","u","t">>, <<"o","p","e","n">>, <<"t","y","p","e">> }

AfterUndeclared == pc \in {"invalid_operator", "done"}

\* C7: the UNDECLARED_IDENTIFIER errors of a Python run are, in token order, one for
\* each IDENTIFIER token that is not immediately followed by `=`, is none of print,
\* len, range, input, open, type, and whose name is not in the symbol table collected
\* over the whole stream in pass 1; each carries the token's line and names it.
\* Scenario D yields exactly one, at line 2, for `y`.
C7_PythonUndeclaredErrors ==
    (AfterUndeclared /\ lang = LANG_PYTHON) =>
        LET errs == ErrorsOfType(errors, ERROR_TYPE_UNDECLARED_IDENTIFIER)
            at == Indices(Len(tokens), LAMBDA i :
                      /\ tokens[i].type = "IDENTIFIER"
                      /\ ~FollowedByAssign(tokens, i)
                      /\ tokens[i].value \notin PyAllowList
                      /\ tokens[i].value \notin PyDeclaredNames(tokens))
        IN  /\ { symbols[k] : k \in DOMAIN symbols } = PyDeclaredNames(tokens)
            /\ Len(errs) = Len(at)
            /\ \A k \in DOMAIN errs :
                  /\ errs[k].line_number = tokens[at[k]].line
                  /\ errs[k].message.args = <<tokens[at[k]].value>>
            /\ source = ScenarioD =>
                  /\ Len(errs) = 1
                  /\ errs[1].line_number = 2
                  /\ errs[1].message.args = << <<"y">> >>

\* A Python run has ended on a stream in which a name is used before the assignment
\* that declares it and is not reported, and an undeclared name is reported.
C7_Witness ==
    /\ pc = "done"
    /\ lang = LANG_PYTHON
    /\ \E i, j \in DOMAIN tokens :
          /\ i < j
          /\ tokens[i].type = "IDENTIFIER"
          /\ tokens[i].value = tokens[j].value
          /\ ~FollowedByAssign(tokens, i)
          /\ FollowedByAssign(tokens, j)
          /\ \A k \in DOMAIN errors :
                errors[k].type = ERROR_TYPE_UNDECLARED_IDENTIFIER
                    => errors[k].message.args # <<tokens[i].value>>
    /\ \E k \in DOMAIN errors : errors[k].type = ERROR_TYPE_UNDECLARED_IDENTIFIER

\* The operator texts the detector of each language reports, with the message of each.
InvalidOperatorMessage(l) ==
    IF l = LANG_PYTHON
    THEN [ v \in { <<"=","=","=">>, <<"!","=","=">>, <<"=","<">>, <<"=",">">> } |->
             CASE v = <<"=","=","=">> -> "Invalid operator - '===' is not valid in Python, use '==' instead"
               [] v = <<"!","=","=">> -> "Invalid operator - '!==' is not valid in Python, use '!=' instead"
               [] v = <<"=","<">>     -> "Invalid operator - '=<' should be '<='"
               [] v = <<"=",">">>     -> "Invalid operator - '=>' is not valid in Python, use '>=' for comparison" ]
    ELSE [ v \in { <<"=","<">> } |-> "Invalid operator - '=<' should be '<='" ]

\* C8: the INVALID_OPERATOR errors are, in token order, one for each OPERATOR token
\* whose text is `===`, `!==`, `=<` or `=>` in Python, `=<` in TypeScript, and none
\* for any other token; each carries the token's line and the suggestion for its
\* text.  Scenario C as TypeScript yields exactly one, at line 1, suggesting `<=`.
C8_InvalidOperatorErrors ==
    pc = "done" =>
        LET errs == ErrorsOfType(errors, ERROR_TYPE_INVALID_OPERATOR)
            msg == InvalidOperatorMessage(lang)
            toks == SelectSeq(tokens, LAMBDA t : t.type = "OPERATOR" /\ t.value \in DOMAIN msg)
        IN  /\ Len(errs) = Len(toks)
            /\ \A k \in DOMAIN errs :
                  /\ errs[k].line_number = toks[k].line
                  /\ errs[k].message.fmt = msg[toks[k].value]
            /\ (source = ScenarioC /\ lang = LANG_TYPESCRIPT) =>
                  /\ Len(errs) = 1
                  /\ errs[1].line_number = 1
                  /\ errs[1].message.fmt = "Invalid operator - '=<' should be '<='"

\* A TypeScript run has ended with exactly one INVALID_OPERATOR error, after line 1,
\* on a stream that also holds an operator `===` or `=>`.
C8_Witness ==
    /\ pc = "done"
    /\ lang = LANG_TYPESCRIPT
    /\ LET errs == ErrorsOfType(errors, ERROR_TYPE_INVALID_OPERATOR)
       IN  Len(errs) = 1 /\ errs[1].line_number > 1
    /\ \E i \in DOMAIN tokens :
          tokens[i].type = "OPERATOR" /\ tokens[i].value \in { <<"=","=","=">>, <<"=",">">> }

\* s is a prefix of t.
IsPrefix(s, t) == Len(s) <= Len(t) /\ SubSeq(t, 1, Len(s)) = s

\* The errors are grouped by kind in the order of the detectors, and within a kind the
\* line numbers never decrease.
KindOrdered(errs) ==
    \A i, j \in DOMAIN errs :
        i < j =>
            /\ ErrorTypeOrd(errs[i].type) <= ErrorTypeOrd(errs[j].type)
            /\ errs[i].type = errs[j].type => errs[i].line_number <= errs[j].line_number

\* C9: every step of a run leaves the errors already in the list where and as they
\* are and only appends to them, and the list stays grouped by kind (misspelled, type
\* mismatch, undeclared, invalid operator) with non-decreasing lines within a kind.
C9_ErrorOrder == [][IsPrefix(errors, errors') /\ KindOrdered(errors')]_vars

\* A run has ended with errors of all four kinds, an error of a later kind having a
\* smaller line than an error before it.
C9_Witness ==
    /\ pc = "done"
    /\ \A t \in {ERROR_TYPE_MISSPELLED_KEYWORD, ERROR_TYPE_TYPE_MISMATCH,
                 ERROR_TYPE_UNDECLARED_IDENTIFIER, ERROR_TYPE_INVALID_OPERATOR} :
          \E k \in DOMAIN errors : errors[k].type = t
    /\ \E i, j \in DOMAIN errors : i < j /\ errors[i].line_number > errors[j].line_number

\* C10: the comment list never holds more than MAX_COMMENTS comments and the error
\* list never more than MAX_ERRORS errors.
C10_WithinCapacity == Len(comments) <= MAX_COMMENTS /\ Len(errors) <= MAX_ERRORS

\* The token stream the scan of src yields when the count of tokens is not tested.
UncappedTokens(src, l) ==
    Iterate(LAMBDA st : TokenizeStep(src, l, st),
            LAMBDA st : ~(st.p <= Len(src)),
            [p |-> 1, line |-> 1, tokens |-> <<>>], Len(src)).tokens

Min(a, b) == IF a < b THEN a ELSE b

\* C11: the token list never holds more than MAX_TOKENS tokens, and the tokens
\* produced are the first MAX_TOKENS tokens of the uncapped scan of the clean text
\* (all of them when there are fewer).
C11_TokenCap ==
    /\ Len(tokens) <= MAX_TOKENS
    /\ pc = "misspelled" =>
          LET all == UncappedTokens(clean, lang)
          IN  tokens = SubSeq(all, 1, Min(Len(all), MAX_TOKENS))

\* Tokenization has stopped at the cap on a clean text that holds more tokens.
C11_Witness ==
    /\ pc = "done"
    /\ Len(tokens) = MAX_TOKENS
    /\ Len(UncappedTokens(clean, lang)) > MAX_TOKENS

\* The comment is multi-line and its content does not end with the closer that
\* matches its opener.
Unterminated(l, c) ==
    /\ c.is_multiline
    /\ LET n == Len(c.content)
       IN  IF l = LANG_PYTHON
           THEN ~(n >= 6 /\ \A k \in (n - 2)..n : c.content[k] = c.content[1])
           ELSE ~(n >= 4 /\ c.content[n - 1] = "*" /\ c.content[n] = "/")

\* C12: a multi-line comment whose opener has no matching closer holds every
\* character from the opener to the end of the source; none of them is in the clean
\* text, and so none becomes a token.
C12_UnterminatedConsumesToEnd ==
    pc # "extract" =>
        \A i \in DOMAIN comments :
            Unterminated(lang, comments[i]) =>
                /\ comments[i].content = SubSeq(source, comments[i].pos, Len(source))
                /\ \A k \in DOMAIN cleanmap : cleanmap[k] < comments[i].pos

\* The text obtained by putting each comment's content back into the clean text at
\* the offset the comment had in the source.
Reinserted(text, cmts) ==
    Iterate(LAMBDA s :
                IF s.i <= Len(cmts) /\ cmts[s.i].pos = Len(s.out) + 1
                THEN [s EXCEPT !.out = @ \o cmts[s.i].content, !.i = @ + 1]
                ELSE [s EXCEPT !.out = Append(@, text[s.k]), !.k = @ + 1],
            LAMBDA s : ~(\/ s.i <= Len(cmts) /\ cmts[s.i].pos = Len(s.out) + 1
                         \/ s.k <= Len(text)),
            [out |-> <<>>, k |-> 1, i |-> 1], Len(text) + Len(cmts)).out

TotalContentLength(cmts) == ForLoop(LAMBDA i, n : n + Len(cmts[i].content), 1, Len(cmts), 0)

\* C13: every source character is copied to exactly one place, the clean text or
\* the content of one comment, in source order: putting the comments back into the
\* clean text at their offsets gives the source, and the lengths add up.
C13_CommentRoundTrip ==
    pc # "extract" =>
        /\ Reinserted(clean, comments) = source
        /\ Len(clean) + TotalContentLength(comments) = Len(source)
        /\ \A k \in DOMAIN clean : clean[k] = source[cleanmap[k]]
        /\ \A p \in DOMAIN source :
              Cardinality({k \in DOMAIN cleanmap : cleanmap[k] = p})
              + Cardinality({i \in DOMAIN comments :
                    p \in comments[i].pos..(comments[i].pos + Len(comments[i].content) - 1)}) = 1

\* Extraction has split a source into two comments, one of them multi-line, with
\* clean text between and after them.
C13_Witness ==
    /\ pc = "done"
    /\ Len(comments) = 2
    /\ comments[1].is_multiline # comments[2].is_multiline
    /\ \E b, c \in DOMAIN cleanmap :
          /\ comments[1].pos < cleanmap[b] /\ cleanmap[b] < comments[2].pos
          /\ comments[2].pos < cleanmap[c]

\* The characters at which a token of the language starts.
StartsToken(l, c) ==
    \/ c \in Lower \cup Upper \cup Digits \cup {"_", "\"", "'"}
    \/ c \in {"+","-","*","/","%","=","<",">","!","&","|","^","~"}
    \/ c \in {"(",")","[","]","{","}",",",":",";","."}
    \/ l = LANG_TYPESCRIPT /\ c \in {"$", Backtick}

WhiteSpace == {" ", "\t", "\n", "\r", "\f"}

\* The positions of the clean text that token tok covers.
Span(tok) == tok.pos..(tok.pos + Len(tok.value) - 1)

AfterTokenize == pc \in {"misspelled", "type_mismatch", "undeclared", "invalid_operator", "done"}

\* C14: below the token cap, the spans of the tokens are disjoint and in increasing
\* order, the value of a token is the clean text of its span, and every character of
\* the clean text outside the spans is white space or starts no token.
C14_TokenCoverage ==
    (AfterTokenize /\ Len(tokens) < MAX_TOKENS) =>
        /\ \A i \in DOMAIN tokens :
              /\ tokens[i].pos >= 1 /\ tokens[i].pos + Len(tokens[i].value) - 1 <= Len(clean)
              /\ tokens[i].value = SubSeq(clean, tokens[i].pos, tokens[i].pos + Len(tokens[i].value) - 1)
              /\ i > 1 => tokens[i - 1].pos + Len(tokens[i - 1].value) <= tokens[i].pos
        /\ \A p \in DOMAIN clean :
              (\A i \in DOMAIN tokens : p \notin Span(tokens[i])) =>
                  clean[p] \in WhiteSpace \/ ~StartsToken(lang, clean[p])

\* C15: every token has a non-empty value and a line of at least 1, and the lines
\* never decrease along the token stream.
C15_TokenInvariants ==
    AfterTokenize =>
        \A i \in DOMAIN tokens :
            /\ Len(tokens[i].value) >= 1
            /\ tokens[i].line >= 1
            /\ i > 1 => tokens[i - 1].line <= tokens[i].line

\* A run has produced tokens on three different lines, one of them a string literal
\* that holds a newline.
C15_Witness ==
    /\ pc = "done"
    /\ \E i, j, k \in DOMAIN tokens :
          tokens[i].line < tokens[j].line /\ tokens[j].line < tokens[k].line
    /\ \E i \in DOMAIN tokens :
          tokens[i].type = "STRING_LITERAL" /\ \E p \in DOMAIN tokens[i].value : tokens[i].value[p] = "\n"
\* The least number of insertions, deletions and substitutions of one character
\* that turn a into b.
RECURSIVE EditDistance(_, _)
EditDistance(a, b) ==
    IF a = <<>> THEN Len(b)
    ELSE IF b = <<>> THEN Len(a)
    ELSE LET del == EditDistance(Rest(a), b) + 1
             ins == EditDistance(a, Rest(b)) + 1
             sub == EditDistance(Rest(a), Rest(b)) + (IF a[1] = b[1] THEN 0 ELSE 1)
         IN Min(Min(del, ins), sub)

\* C16: the value levenshtein_distance returns for (str1, str2) is the value it returns
\* for (str2, str1); it is 0 for equal arguments; it is 0 exactly when the arguments
\* are equal after lower-casing; and it is the edit distance of the lower-cased
\* arguments.
C16_LevenshteinDistance ==
    pc = "returned" =>
        /\ levcall.distance = levenshtein_distance(levcall.str2, levcall.str1)
        /\ levcall.str1 = levcall.str2 => levcall.distance = 0
        /\ levcall.distance = 0 <=> LowerText(levcall.str1) = LowerText(levcall.str2)
        /\ levcall.distance = EditDistance(LowerText(levcall.str1), LowerText(levcall.str2))

\* A call has returned 0 for two different strings of MaxLevLen characters.
C16_Witness ==
    /\ pc = "returned"
    /\ levcall.distance = 0
    /\ levcall.str1 # levcall.str2
    /\ Len(levcall.str1) = MaxLevLen

HasExtension(name, e) ==
    Len(name) > Len(e) /\ SubSeq(name, Len(name) - Len(e) + 1, Len(name)) = e

Accepted ==
    /\ Len(argv) = 1
    /\ \E e \in {<<".", "p", "y">>, <<".", "t", "s">>, <<".", "j", "s">>} : HasExtension(argv[1], e)
    /\ readable

\* C18: the program exits with status 0 exactly when it was given one argument with
\* extension .py, .ts or .js naming a file that can be opened; then the stages ran, in
\* the Python variant for .py and in the TypeScript variant otherwise, whatever the
\* number of errors.  In every other case it exits with a non-zero status and no
\* stage ever runs.
C18_ExitStatus ==
    /\ pc = "exited" => (exit_status = 0 <=> Accepted)
    /\ pc = "exited" => exit_status \in {0, 1}
    /\ pc # "exited" => exit_status = -1
    /\ (pc = "exited" /\ Accepted) =>
          /\ lang = (IF HasExtension(argv[1], <<".", "p", "y">>) THEN LANG_PYTHON ELSE LANG_TYPESCRIPT)
          /\ tokens # <<>>
          /\ tokens = (IF lang = LANG_PYTHON THEN tokenize_python(clean) ELSE tokenize_typescript(clean))
    /\ ~Accepted =>
          /\ pc \in {"main", "validate", "read_file", "exited"}
          /\ comments = <<>> /\ clean = <<>> /\ tokens = <<>> /\ errors = <<>>

\* The program has exited with status 0 after recording two errors or more.
C18_Witness ==
    /\ pc = "exited"
    /\ exit_status = 0
    /\ Len(errors) >= 2

NoDuplicates(table) == \A i, j \in DOMAIN table : table[i] = table[j] => i = j

\* The symbol table of a Python run holds exactly the names pass 1 is to collect, no
\* name twice, and at most MAX_SYMBOLS names.
C19_TableIsDeclaredNames ==
    (AfterUndeclared /\ lang = LANG_PYTHON) =>
        /\ { symbols[k] : k \in DOMAIN symbols } = PyDeclaredNames(tokens)
        /\ NoDuplicates(symbols)
        /\ Len(symbols) <= MAX_SYMBOLS

\* C19: the symbol table of a Python run holds only names that are an IDENTIFIER
\* followed by a token `=` or an IDENTIFIER between a def or for and the next `:` (or
\* the end of the stream); it holds all of them when they are at most MAX_SYMBOLS
\* different names, and MAX_SYMBOLS of them otherwise; it holds no name twice.
C19_PythonSymbolTable ==
    (AfterUndeclared /\ lang = LANG_PYTHON) =>
        LET declared == PyDeclaredNames(tokens)
            held == { symbols[k] : k \in DOMAIN symbols }
        IN  /\ held \subseteq declared
            /\ NoDuplicates(symbols)
            /\ Len(symbols) <= MAX_SYMBOLS
            /\ IF Cardinality(declared) <= MAX_SYMBOLS THEN held = declared
               ELSE Len(symbols) = MAX_SYMBOLS

\* A Python run has ended with a full symbol table on a stream that declares more
\* than MAX_SYMBOLS names.
C19_Witness ==
    /\ pc = "done"
    /\ lang = LANG_PYTHON
    /\ Len(symbols) = MAX_SYMBOLS
    /\ Cardinality(PyDeclaredNames(tokens)) > MAX_SYMBOLS

DeclarationWords == { <<"l","e","t">>, <<"c","o","n","s","t">>, <<"v","a","r">> }
FunctionWord == <<"f","u","n","c","t","i","o","n">>

\* The names the TypeScript detector is to treat as declared: the identifiers right
\* after let, const or var, and, for a function token, the identifiers before the
\* next ")" that come right after it or right after "(" or ",".
TsDeclaredNames(toks) ==
    { toks[j].value : j \in { j \in 2..Len(toks) :
          toks[j].type = "IDENTIFIER" /\ toks[j - 1].value \in DeclarationWords } }
    \cup
    { toks[j].value : j \in { j \in 2..Len(toks) :
          /\ toks[j].type = "IDENTIFIER"
          /\ \E i \in 1..(j - 1) :
                /\ toks[i].value = FunctionWord
                /\ \A h \in (i + 1)..j : toks[h].value # <<")">>
                /\ j = i + 1 \/ toks[j - 1].value \in { <<"(">>, <<",">> } } }

\* C20: in a TypeScript run the symbol table holds exactly the names of
\* TsDeclaredNames, and the UNDECLARED_IDENTIFIER errors are, in token order, one for
\* each IDENTIFIER token that does not come right after let, const, var or function,
\* is none of console, log, document, window, Math, Array, and whose name is not in
\* that set; each carries the token's line and names it.
C20_TypeScriptUndeclaredErrors ==
    (AfterUndeclared /\ lang = LANG_TYPESCRIPT) =>
        LET declared == TsDeclaredNames(tokens)
            errs == ErrorsOfType(errors, ERROR_TYPE_UNDECLARED_IDENTIFIER)
            at == Indices(Len(tokens), LAMBDA i :
                      /\ tokens[i].type = "IDENTIFIER"
                      /\ ~(i > 1 /\ tokens[i - 1].value \in DeclarationWords \cup {FunctionWord})
                      /\ tokens[i].value \notin
                            { <<"c","o","n","s","o","l","e">>, <<"l","o","g">>,
                              <<"d","o","c","u","m","e","n","t">>, <<"w","i","n","d","o","w">>,
                              <<"M","a","t","h">>, <<"A","r","r","a","y">> }
                      /\ tokens[i].value \notin declared)
        IN  /\ { symbols[k] : k \in DOMAIN symbols } = declared
            /\ Len(errs) = Len(at)
            /\ \A k \in DOMAIN errs :
                  /\ errs[k].type = ERROR_TYPE_UNDECLARED_IDENTIFIER
                  /\ errs[k].line_number = tokens[at[k]].line
                  /\ errs[k].message.args = <<tokens[at[k]].value>>

\* A TypeScript run has ended on a stream in which a name between a function and its
\* ")" follows neither "(" nor "," and is reported twice, and a parameter is used
\* and not reported.
C20_Witness ==
    /\ pc = "done"
    /\ lang = LANG_TYPESCRIPT
    /\ \E i, j, k \in DOMAIN tokens :
          /\ i < j /\ j < k
          /\ tokens[i].value = FunctionWord
          /\ \A h \in (i + 1)..j : tokens[h].value # <<")">>
          /\ tokens[j].type = "IDENTIFIER"
          /\ tokens[j].value \notin TsDeclaredNames(tokens)
          /\ tokens[k].value = tokens[j].value
    /\ \E i \in DOMAIN tokens :
          /\ i > 1
          /\ tokens[i].value = <<"a">>
          /\ tokens[i - 1].value \notin { <<"(">>, <<",">> }
          /\ <<"a">> \in TsDeclaredNames(tokens)
    /\ Len(ErrorsOfType(errors, ERROR_TYPE_UNDECLARED_IDENTIFIER)) >= 2

\* The number of backslashes that stand in text right before position c, counted
\* down to position lo at most.
RECURSIVE BackslashesBefore(_, _, _)
BackslashesBefore(text, lo, c) ==
    IF c - 1 >= lo /\ text[c - 1] = "\\" THEN 1 + BackslashesBefore(text, lo, c - 1) ELSE 0

\* The positions after the opening quote at p where the string literal can close: the
\* quote character of p, after an even number of backslashes.
Closers(text, p) ==
    { c \in (p + 1)..Len(text) :
        text[c] = text[p] /\ BackslashesBefore(text, p + 1, c) % 2 = 0 }

\* The last position of the string literal that opens at p.
StringEnd(text, p) ==
    IF Closers(text, p) = {} THEN Len(text)
    ELSE CHOOSE c \in Closers(text, p) : \A d \in Closers(text, p) : c <= d

OpensString(l, c) == c \in {"\"", "'"} \/ (l = LANG_TYPESCRIPT /\ c = Backtick)

\* C21: a token that starts at a quote (or, in TypeScript, a backquote) is a
\* STRING_LITERAL whose value runs to the first later occurrence of the same quote
\* that does not follow an odd number of backslashes, that quote included, or to the
\* end of the text when there is none; no other token is a STRING_LITERAL.
C21_StringLiterals ==
    AfterTokenize =>
        \A i \in DOMAIN tokens :
            IF OpensString(lang, clean[tokens[i].pos])
            THEN /\ tokens[i].type = "STRING_LITERAL"
                 /\ tokens[i].value = SubSeq(clean, tokens[i].pos, StringEnd(clean, tokens[i].pos))
            ELSE tokens[i].type # "STRING_LITERAL"

\* A run has produced a string literal of four characters: the quote, a backslash,
\* the quote again, which does not close it, and the quote that closes it.
C21_Witness ==
    /\ pc = "done"
    /\ \E i \in DOMAIN tokens :
          /\ tokens[i].type = "STRING_LITERAL"
          /\ Len(tokens[i].value) = 4
          /\ tokens[i].value[2] = "\\"
          /\ tokens[i].value[3] = tokens[i].value[1]
          /\ tokens[i].value[4] = tokens[i].value[1]

\* C22: on a clean text with no `$` and no backquote the two tokenizers yield the same
\* number of tokens, with the same values and the same lines position by position, and
\* kinds that differ only for a word that is a keyword of one language and not of the
\* other.
C22_TokenizersAgree ==
    (AfterTokenize /\ \A k \in DOMAIN clean : clean[k] \notin {"$", Backtick}) =>
        LET py == tokenize_python(clean)
            ts == tokenize_typescript(clean)
        IN  /\ Len(py) = Len(ts)
            /\ \A i \in DOMAIN py :
                  /\ py[i].value = ts[i].value
                  /\ py[i].line = ts[i].line
                  /\ py[i].type # ts[i].type =>
                        is_python_keyword(py[i].value) # is_typescript_keyword(py[i].value)

\* The source positions that comment c covers.
CommentSpan(c) == c.pos..(c.pos + Len(c.content) - 1)

\* C23: the clean text of a Python run holds no `#`: every `#` of the source lies in a
\* comment, and a single-line comment starts with `#` wherever it stands, also between
\* the quotes of a string.  For `x = "a#b"` the one comment is `#b"` and the last token
\* is the unterminated STRING_LITERAL `"a`.  The clean text of a TypeScript run holds
\* neither `//` nor `/*`.
C23_NoMarkerInCleanText ==
    pc # "extract" =>
        /\ lang = LANG_PYTHON =>
              /\ \A k \in DOMAIN clean : clean[k] # "#"
              /\ \A p \in DOMAIN source :
                    source[p] = "#" => \E i \in DOMAIN comments : p \in CommentSpan(comments[i])
              /\ \A i \in DOMAIN comments :
                    ~comments[i].is_multiline =>
                        /\ comments[i].content[1] = "#"
                        /\ source[comments[i].pos] = "#"
              /\ (source = HashInString /\ AfterTokenize) =>
                    /\ Len(comments) = 1
                    /\ comments[1].content = <<"#", "b", "\"">>
                    /\ tokens # <<>>
                    /\ tokens[Len(tokens)].type = "STRING_LITERAL"
                    /\ tokens[Len(tokens)].value = <<"\"", "a">>
        /\ lang = LANG_TYPESCRIPT =>
              \A k \in 1..(Len(clean) - 1) :
                  ~(clean[k] = "/" /\ clean[k + 1] \in {"/", "*"})

\* A Python run has ended on a text in which a `#` after an opening double quote
\* started a comment, the quote being left in the clean text as an unterminated
\* string literal.
C23_Witness ==
    /\ pc = "done"
    /\ lang = LANG_PYTHON
    /\ \E i \in DOMAIN comments, j \in DOMAIN tokens :
          /\ ~comments[i].is_multiline
          /\ comments[i].pos > 1
          /\ source[comments[i].pos - 1] = "\""
          /\ tokens[j].type = "STRING_LITERAL"
          /\ tokens[j].value = <<"\"">>
          /\ cleanmap[tokens[j].pos] = comments[i].pos - 1

\* C24: no token value holds more than TOKEN_VALUE_SIZE - 1 characters and no comment
\* content more than MAX_LENGTH - 1 characters.
C24_BuffersNotOverrun ==
    /\ \A i \in DOMAIN tokens : Len(tokens[i].value) <= TOKEN_VALUE_SIZE - 1
    /\ \A i \in DOMAIN comments : Len(comments[i].content) <= MAX_LENGTH - 1
====
